---- MODULE Spec2Model ----
(***************************************************************************)
(* A model of the order-book facade of solster-dex (src/src/market.ts),    *)
(* of the slab it reads (src/unnamed/part_002, the slab layouts) and of    *)
(* the pool schema helpers (src/packages/pool/src/schema.ts).              *)
(*                                                                         *)
(* Numbers.  A 128-bit key is a sequence of 16 bytes, least significant    *)
(* byte first, so that the shift of getPriceFromKey is a real operation on *)
(* the representation.  Lot quantities, lot sizes and decimals are         *)
(* naturals (BN is arbitrary precision: no wrap-around).  A JavaScript     *)
(* number that results from a division is kept as an exact fraction.       *)
(***************************************************************************)
EXTENDS Integers, Sequences, FiniteSets, TLC

VARIABLES
  market,   \* the Market: lot sizes and mint decimals
  isBids,   \* Orderbook.isBids
  slab,     \* Orderbook.slab: [header, nodes], the decoded snapshot
  calls,    \* number of queries made on the Orderbook so far
  data,     \* the account buffer handed to a decoder
  sizeArg,  \* the number handed to the size conversions, a fraction num/den
  keys,     \* the keys handed to getPriceFromKey
  connection, \* the accounts the cluster answers getAccountInfo with, by address
  op,       \* the last call: its name, its arguments, the state before it
  ret       \* what the last call returned

vars == <<market, isBids, slab, calls, data, sizeArg, keys, connection, op, ret>>

----------------------------------------------------------------------------
(* Bounds of the model *)

MaxLeaves == 3      \* leaves in a generated slab
MaxPrice == 2       \* prices 1..MaxPrice in a generated book
MaxDepth == 2       \* getL2 depths 0..MaxDepth+1
MaxCalls == 2       \* queries per Orderbook

(* Program constants *)

KeyBits == 128      \* u128('key')
PriceShift == 64    \* key.ushrn(64)

----------------------------------------------------------------------------
(* BN values held as byte sequences, least significant byte first, as the  *)
(* u64 and u128 layouts read them from a buffer                            *)

Min(a, b) == IF a < b THEN a ELSE b

RECURSIVE Pow2(_)
Pow2(n) == IF n = 0 THEN 1 ELSE 2 * Pow2(n - 1)

RECURSIVE Pow256(_)
Pow256(n) == IF n = 0 THEN 1 ELSE 256 * Pow256(n - 1)

\* the w-byte representation of a small natural n (n < 2^24)
Bytes(n, w) == [i \in 1..w |-> IF i > 3 THEN 0 ELSE (n \div Pow256(i - 1)) % 256]

RECURSIVE strip(_)
\* BN keeps no leading zero words: a value has one representation
strip(b) ==
  IF b = <<>> THEN <<>>
  ELSE IF b[Len(b)] = 0 THEN strip(SubSeq(b, 1, Len(b) - 1)) ELSE b

\* BN.eq
eq(a, b) == strip(a) = strip(b)

\* byte i of b, zero beyond its length
ByteAt(b, i) == IF i \in 1..Len(b) THEN b[i] ELSE 0

\* BN.ushrn(n): shift right by n bits: whole bytes are dropped, then each byte
\* takes the high bits of itself and the low bits of its neighbour
ushrn(b, n) ==
  LET s == n \div 8
      r == n % 8
  IN  [i \in 1..(IF Len(b) > s THEN Len(b) - s ELSE 0) |->
         (ByteAt(b, i + s) \div Pow2(r)) + (ByteAt(b, i + s + 1) % Pow2(r)) * Pow2(8 - r)]

\* BN.cmp(a, b) < 0
lt(a, b) ==
  LET n == IF Len(a) > Len(b) THEN Len(a) ELSE Len(b)
  IN  \E i \in 1..n :
        /\ ByteAt(a, i) < ByteAt(b, i)
        /\ \A j \in (i + 1)..n : ByteAt(a, j) = ByteAt(b, j)

RECURSIVE BytesToNat(_)
\* BN.toNumber of a value below 2^24
BytesToNat(b) == IF b = <<>> THEN 0 ELSE b[1] + 256 * BytesToNat(Tail(b))

\* bit i (from 1, the lowest) of b
BitAt(b, i) == (ByteAt(b, (i - 1) \div 8 + 1) \div Pow2((i - 1) % 8)) % 2

----------------------------------------------------------------------------
(* getPriceFromKey, market.ts 563-565 *)

\* the shift one bit short
getPriceFromKeyShort(key) == ushrn(key, PriceShift - 1)

getPriceFromKey(key) == ushrn(key, PriceShift)

\* a key as the external program forms it: price high, sequence number low
MakeKey(price, seqNum) == seqNum \o price

\* bytes of a key, and of its price and of its sequence number
KeyBytes == KeyBits \div 8

HalfBytes == (KeyBits - PriceShift) \div 8

----------------------------------------------------------------------------
(* Lot conversions of Market, market.ts 304-336 *)

RECURSIVE Pow10(_)
Pow10(n) == IF n = 0 THEN 1 ELSE 10 * Pow10(n - 1)

baseSplTokenMultiplier(m) == Pow10(m.baseDecimals)

quoteSplTokenMultiplier(m) == Pow10(m.quoteDecimals)

RECURSIVE gcd(_, _)
gcd(a, b) == IF b = 0 THEN a ELSE gcd(b, a % b)

\* the remainder over the denominator, not reduced
divideBnToNumberUnreduced(numerator, denominator) ==
  [whole |-> numerator \div denominator, num |-> numerator % denominator,
   den |-> denominator]

\* quotient + (rem / gcd) / (denominator / gcd); the number returned is kept
\* as the whole part and the reduced fraction that are added
divideBnToNumber(numerator, denominator) ==
  LET quotient == numerator \div denominator
      rem == numerator % denominator
      g == gcd(rem, denominator)
  IN  [whole |-> quotient, num |-> rem \div g, den |-> denominator \div g]

priceLotsToNumber(m, price) ==
  divideBnToNumber(BytesToNat(strip(price)) * m.quoteLotSize * baseSplTokenMultiplier(m),
                   m.baseLotSize * quoteSplTokenMultiplier(m))

baseSizeLotsToNumber(m, size) ==
  divideBnToNumber(size * m.baseLotSize, baseSplTokenMultiplier(m))

----------------------------------------------------------------------------
(* The slab: header and node array, part_002 4-49 *)

LeafNode(key, p) ==
  [tag |-> "leafNode", ownerSlot |-> p.ownerSlot, key |-> key,
   owner |-> p.owner, quantity |-> p.quantity]

InnerNode(prefixLen, key, children) ==
  [tag |-> "innerNode", prefixLen |-> prefixLen, key |-> key, children |-> children]

\* the highest bit on which two keys of S differ
CritBit(S) ==
  LET one == CHOOSE k \in S : TRUE
      bytes == {i \in 1..KeyBytes : \E a \in S : ByteAt(a, i) # ByteAt(one, i)}
      byte == CHOOSE i \in bytes : \A j \in bytes : j <= i
      bits == {i \in (8 * byte - 7)..(8 * byte) :
                 \E a \in S : BitAt(a, i) # BitAt(one, i)}
  IN  CHOOSE i \in bits : \A j \in bits : j <= i

RECURSIVE BuildNodes(_, _, _)
\* the nodes of the crit-bit tree over the keys S, its root at index base:
\* what the external program leaves in the node array for these orders
BuildNodes(S, payload, base) ==
  IF Cardinality(S) = 1
  THEN LET k == CHOOSE k \in S : TRUE IN <<LeafNode(k, payload[k])>>
  ELSE LET crit == CritBit(S)
           left == BuildNodes({k \in S : BitAt(k, crit) = 0}, payload, base + 1)
           right == BuildNodes({k \in S : BitAt(k, crit) = 1}, payload, base + 1 + Len(left))
           top == CHOOSE k \in S : \A o \in S : o = k \/ lt(o, k)
       IN  <<InnerNode(KeyBits - crit, top, <<base + 1, base + 1 + Len(left)>>)>>
             \o left \o right

\* SLAB_LAYOUT.decode of an account holding the orders S
BuildSlab(S, payload) ==
  LET nodes == IF S = {} THEN <<>> ELSE BuildNodes(S, payload, 0)
  IN  [header |-> [bumpIndex |-> Len(nodes), freeListLen |-> 0, freeListHead |-> 0,
                   root |-> 0, leafCount |-> Cardinality(S)],
       nodes |-> nodes]

\* the traversal stops where it stands without failing
CorruptTreeUnnoticed(out, path) == [refs |-> out, error |-> "none", path |-> path]

\* the traversal fails with CorruptTree; out are the leaves yielded before,
\* path the nodes visited before
CorruptTree(out, path) == [refs |-> out, error |-> "CorruptTree", path |-> path]

\* both directions push the children in one order
PushChildrenOneWay(children, descending) == <<children[2], children[1]>>

\* the children in the order they are pushed: the one pushed last is popped,
\* and so visited, first
PushChildren(children, descending) ==
  IF descending THEN <<children[1], children[2]>> ELSE <<children[2], children[1]>>

RECURSIVE Walk(_, _, _, _, _, _)
\* depth-first walk with an explicit stack of node indices; yields the indices
\* of the leaf nodes, which are the leafNode objects of the node array themselves.
\* A node met twice, an index outside the node array and a leaf beyond
\* leafCount end the walk with CorruptTree.
Walk(nodes, leafCount, stack, descending, path, out) ==
  IF stack = <<>> THEN [refs |-> out, error |-> "none", path |-> path]
  ELSE LET index == stack[Len(stack)]
           rest == SubSeq(stack, 1, Len(stack) - 1)
       IN  IF index >= Len(nodes) \/ (\E i \in 1..Len(path) : path[i] = index)
           THEN CorruptTree(out, path)
           ELSE LET node == nodes[index + 1]
                    seen == Append(path, index)
                IN  IF node.tag = "leafNode"
                    THEN IF Len(out) >= leafCount THEN CorruptTree(out, path)
                         ELSE Walk(nodes, leafCount, rest, descending, seen,
                                   Append(out, index))
                    ELSE IF node.tag = "innerNode"
                    THEN Walk(nodes, leafCount,
                              rest \o PushChildren(node.children, descending),
                              descending, seen, out)
                    ELSE Walk(nodes, leafCount, rest, descending, seen, out)

\* the traversal starts at the root whatever leafCount says
TraverseFromRoot(s, descending) ==
  Walk(s.nodes, s.header.leafCount, <<s.header.root>>, descending, <<>>, <<>>)

\* Slab traversal: the leaves it yields, the nodes it visits and how it ends;
\* an empty tree (leafCount = 0) yields nothing
Traverse(s, descending) ==
  IF s.header.leafCount = 0 THEN [refs |-> <<>>, error |-> "none", path |-> <<>>]
  ELSE Walk(s.nodes, s.header.leafCount, <<s.header.root>>, descending, <<>>, <<>>)

\* Slab.items(descending): the leaves it yields
items(s, descending) == Traverse(s, descending).refs

\* Slab[Symbol.iterator]: takes no argument, the slab has no side
SlabIterator(s) == items(s, FALSE)

----------------------------------------------------------------------------
(* Orderbook.getL2, market.ts 525-544 *)

\* the direction ignores the side of the book
L2DescendingNever(bids) == FALSE

\* const descending = this.isBids
L2Descending(bids) == bids

\* levels.length > 0 && levels[levels.length - 1][0].eq(price)
L2SamePrice(levels, price) ==
  Len(levels) > 0 /\ eq(levels[Len(levels)].price, price)

\* the depth test off by one
L2FullLate(levels, depth) == Len(levels) = depth + 1

\* levels.length === depth
L2Full(levels, depth) == Len(levels) = depth

\* the level keeps the last quantity instead of the sum
L2MergeOverwrite(nodes, ref, quantity) ==
  [nodes EXCEPT ![ref + 1].quantity = quantity]

\* levels[levels.length - 1][1].iadd(quantity): the BN held by the level is the
\* quantity object of the leaf that opened the level, and iadd adds in place
L2Merge(nodes, ref, quantity) ==
  [nodes EXCEPT ![ref + 1].quantity = @ + quantity]

\* levels.push([price, quantity]): the level holds the leaf's own quantity
L2Push(levels, price, ref) == Append(levels, [price |-> price, ref |-> ref])

RECURSIVE L2Loop(_, _, _, _)
\* the for loop over this.slab.items(descending); refs are the leaves not yet
\* yielded
L2Loop(nodes, refs, levels, depth) ==
  IF refs = <<>> THEN [nodes |-> nodes, levels |-> levels]
  ELSE LET leaf == nodes[Head(refs) + 1]
           price == getPriceFromKey(leaf.key)
       IN  IF L2SamePrice(levels, price)
           THEN L2Loop(L2Merge(nodes, levels[Len(levels)].ref, leaf.quantity),
                       Tail(refs), levels, depth)
           ELSE IF L2Full(levels, depth)
           THEN [nodes |-> nodes, levels |-> levels]
           ELSE L2Loop(nodes, Tail(refs), L2Push(levels, price, Head(refs)), depth)

\* the slab after the loop and the mapped levels
getL2(m, bids, s, depth) ==
  LET done == L2Loop(s.nodes, items(s, L2Descending(bids)), <<>>, depth)
  IN  [slab |-> [s EXCEPT !.nodes = done.nodes],
       levels |-> [i \in 1..Len(done.levels) |->
                     LET priceLots == done.levels[i].price
                         sizeLots == done.nodes[done.levels[i].ref + 1].quantity
                     IN  [price |-> priceLotsToNumber(m, priceLots),
                          size |-> baseSizeLotsToNumber(m, sizeLots),
                          priceLots |-> priceLots,
                          sizeLots |-> sizeLots]]]

(* Orderbook[Symbol.iterator], market.ts 546-560 *)

OrderOf(m, bids, leaf) ==
  LET price == getPriceFromKey(leaf.key)
  IN  [orderId |-> leaf.key, ownerSlot |-> leaf.ownerSlot, owner |-> leaf.owner,
       price |-> priceLotsToNumber(m, price), priceLots |-> price,
       size |-> baseSizeLotsToNumber(m, leaf.quantity), sizeLots |-> leaf.quantity,
       side |-> IF bids THEN "buy" ELSE "sell"]

Orders(m, bids, s) ==
  LET refs == SlabIterator(s)
  IN  [i \in 1..Len(refs) |-> OrderOf(m, bids, s.nodes[refs[i] + 1])]

----------------------------------------------------------------------------
(* The order books the model starts from *)

\* a sequence number with only its highest bit set
TopSeq == [i \in 1..HalfBytes |-> IF i = HalfBytes THEN 128 ELSE 0]

BookSeqs == {Bytes(1, HalfBytes), TopSeq}

BookKeys == {MakeKey(Bytes(p, HalfBytes), q) : p \in 1..MaxPrice, q \in BookSeqs}

LeafPayloads ==
  {[ownerSlot |-> 0, owner |-> "alice", quantity |-> 2],
   [ownerSlot |-> 1, owner |-> "bob", quantity |-> 3]}

BookMarket ==
  [baseLotSize |-> 100, quoteLotSize |-> 10, baseDecimals |-> 3, quoteDecimals |-> 2]

NoOp == [name |-> "none"]

\* no Orderbook, no buffer, no number, no key
NoBook == isBids = FALSE /\ slab = BuildSlab({}, <<>>) /\ calls = 0

NoData == data = <<>>

NoSize == sizeArg = [num |-> 0, den |-> 1]

NoKeys == keys = <<>>

NoConnection == connection = <<>>

\* the account once its only order is gone: the node is on the free list and
\* the tree is empty
Emptied(s) ==
  IF s.header.leafCount # 1 THEN {}
  ELSE {[header |-> [bumpIndex |-> 1, freeListLen |-> 1, freeListHead |-> 0,
                     root |-> 0, leafCount |-> 0],
         nodes |-> <<[tag |-> "lastFreeNode"]>>]}

InitBook ==
  /\ market = BookMarket
  /\ isBids \in BOOLEAN
  /\ \E S \in SUBSET BookKeys :
       /\ Cardinality(S) <= MaxLeaves
       /\ \E payload \in [S -> LeafPayloads] :
            slab \in {BuildSlab(S, payload)} \cup Emptied(BuildSlab(S, payload))
  /\ calls = 0
  /\ NoData /\ NoSize /\ NoKeys
  /\ NoConnection
  /\ op = NoOp
  /\ ret = <<>>

\* orderbook.getL2(depth)
GetL2 ==
  /\ calls < MaxCalls
  /\ \E depth \in 0..(MaxDepth + 1) :
       LET r == getL2(market, isBids, slab, depth)
       IN  /\ slab' = r.slab
           /\ ret' = r.levels
           /\ op' = [name |-> "getL2", depth |-> depth, pre |-> slab]
  /\ calls' = calls + 1
  /\ UNCHANGED <<market, isBids, data, sizeArg, keys, connection>>

\* [...orderbook]
Iterate ==
  /\ calls < MaxCalls
  /\ ret' = Orders(market, isBids, slab)
  /\ op' = [name |-> "iterate", pre |-> slab]
  /\ calls' = calls + 1
  /\ UNCHANGED <<market, isBids, slab, data, sizeArg, keys, connection>>

\* slab.items(descending), run to its end
Items ==
  /\ calls < MaxCalls
  /\ \E descending \in BOOLEAN :
       /\ ret' = Traverse(slab, descending)
       /\ op' = [name |-> "items", descending |-> descending, pre |-> slab]
  /\ calls' = calls + 1
  /\ UNCHANGED <<market, isBids, slab, data, sizeArg, keys, connection>>

NextBook == GetL2 \/ Iterate \/ Items

SpecBook == InitBook /\ [][NextBook]_vars

----------------------------------------------------------------------------
(* Slab traversal over accounts that may be damaged *)

\* the child slots of the inner nodes of s, as <<node index, 1 or 2>>
ChildSlots(s) ==
  {<<i, c>> \in (0..(Len(s.nodes) - 1)) \X {1, 2} : s.nodes[i + 1].tag = "innerNode"}

\* s with one child index overwritten
Redirect(s, slot, target) ==
  [s EXCEPT !.nodes[slot[1] + 1].children[slot[2]] = target]

\* s with a header that counts one leaf less than the tree holds
Understated(s) ==
  IF s.header.leafCount < 2 THEN {}
  ELSE {[s EXCEPT !.header.leafCount = s.header.leafCount - 1]}

\* s, and s with one child index pointing anywhere in the node array or one
\* past its end, and s with a leaf count too low
Damaged(s) ==
  {s} \cup {Redirect(s, slot, target) : slot \in ChildSlots(s), target \in 0..Len(s.nodes)}
      \cup Understated(s)

InitSlab ==
  /\ market = BookMarket
  /\ isBids = FALSE
  /\ \E S \in SUBSET BookKeys :
       /\ Cardinality(S) <= MaxLeaves
       /\ \E payload \in [S -> LeafPayloads] : slab \in Damaged(BuildSlab(S, payload))
  /\ calls = 0
  /\ NoData /\ NoSize /\ NoKeys
  /\ NoConnection
  /\ op = NoOp
  /\ ret = <<>>

NextSlab == Items

SpecSlab == InitSlab /\ [][NextSlab]_vars

----------------------------------------------------------------------------
(* Pool schema helpers, schema.ts 64-120 *)

TagSpan == 8        \* data.slice(0, 8)

RECURSIVE Reverse(_)
Reverse(s) == IF s = <<>> THEN <<>> ELSE Append(Reverse(Tail(s)), Head(s))

\* new BN(digits, 'hex'): the digits are written most significant first
BNFromHex(bytesBE) == strip(Reverse(bytesBE))

\* BN.toBuffer('le'): the bytes of the value, least significant first
toBufferLE(bn) == strip(bn)

\* Buffer.slice(from, to), both counted from 0
slice(b, from, to) == SubSeq(b, from + 1, Min(to, Len(b)))

\* new BN('16a7874c7fb2301b', 'hex')
POOL_STATE_TAG == BNFromHex(<<22, 167, 135, 76, 127, 178, 48, 27>>)

\* new BN('220a6cbdcd1cc4cf', 'hex')
POOL_REQUEST_TAG == BNFromHex(<<34, 10, 108, 189, 205, 28, 196, 207>>)

\* the payload layout applied to the bytes that follow the tag; the record it
\* builds is kept as the layout's name and the bytes it read
PayloadDecode(layout, bytes) == [layout |-> layout, bytes |-> bytes]

Failed(error) == [ok |-> FALSE, error |-> error, payloadDecoded |-> FALSE, value |-> <<>>]

\* tagged(tag, layout).decode(b): the 8-byte little-endian tag is read and
\* compared before the payload layout is given the rest
TaggedDecode(tag, layout, b) ==
  IF Len(b) < TagSpan THEN Failed("truncated")
  ELSE IF ~eq(slice(b, 0, TagSpan), tag) THEN Failed("invalid tag")
  ELSE [ok |-> TRUE, error |-> "none", payloadDecoded |-> TRUE,
        value |-> PayloadDecode(layout, slice(b, TagSpan, Len(b)))]

isPoolState(b) == slice(b, 0, TagSpan) = toBufferLE(POOL_REQUEST_TAG)

\* the state decoder built with the request tag
decodePoolStateAsRequest(b) == TaggedDecode(POOL_REQUEST_TAG, "PoolState", b)

\* PoolState.decode(data), PoolState = tagged(POOL_STATE_TAG, struct([...]))
decodePoolState(b) == TaggedDecode(POOL_STATE_TAG, "PoolState", b)

\* PoolRequest.decode(data), PoolRequest = tagged(POOL_REQUEST_TAG, rustEnum([...]))
decodePoolRequest(b) == TaggedDecode(POOL_REQUEST_TAG, "PoolRequest", b)

\* the magics and damaged copies of them: one byte changed, the byte order
\* reversed, cut short, all zero
CorruptByte(magic, i) == [magic EXCEPT ![i] = (@ + 1) % 256]

PoolHeads ==
  LET magics == {toBufferLE(POOL_STATE_TAG), toBufferLE(POOL_REQUEST_TAG)}
  IN  magics
        \cup {CorruptByte(h, i) : h \in magics, i \in 1..TagSpan}
        \cup {Reverse(h) : h \in magics}
        \cup {SubSeq(h, 1, TagSpan - 1) : h \in magics}
        \cup {[i \in 1..TagSpan |-> 0], <<>>}

PoolPayloads == {<<>>, <<0>>, <<1, 5, 0, 0, 0, 0, 0, 0, 0>>}

InitPool ==
  /\ market = BookMarket
  /\ NoBook /\ NoSize /\ NoKeys
  /\ NoConnection
  /\ \E h \in PoolHeads, body \in PoolPayloads : data = h \o body
  /\ op = NoOp
  /\ ret = <<>>

IsPoolState ==
  /\ op' = [name |-> "isPoolState"]
  /\ ret' = isPoolState(data)
  /\ UNCHANGED <<market, isBids, slab, calls, data, sizeArg, keys, connection>>

DecodePoolState ==
  /\ op' = [name |-> "decodePoolState"]
  /\ ret' = decodePoolState(data)
  /\ UNCHANGED <<market, isBids, slab, calls, data, sizeArg, keys, connection>>

DecodePoolRequest ==
  /\ op' = [name |-> "decodePoolRequest"]
  /\ ret' = decodePoolRequest(data)
  /\ UNCHANGED <<market, isBids, slab, calls, data, sizeArg, keys, connection>>

NextPool == IsPoolState \/ DecodePoolState \/ DecodePoolRequest

SpecPool == InitPool /\ [][NextPool]_vars

----------------------------------------------------------------------------
(* Size conversions of Market, market.ts 331-359 *)

MaxDecimals == 1    \* mint decimals 0..MaxDecimals
MaxLotSize == 3     \* lot sizes 1..MaxLotSize
MaxSizeNum == 6     \* sizes num/den with num in 0..MaxSizeNum

SizeDens == {1, 2, 4}

\* Math.round of the non-negative number num/den: halves go up
MathRound(num, den) == (2 * num + den) \div (2 * den)

\* size * Math.pow(10, decimals), rounded, then BN.div by the lot size
baseSizeNumberToLots(m, s) ==
  LET native == MathRound(s.num * Pow10(m.baseDecimals), s.den)
  IN  native \div m.baseLotSize

quoteSizeNumberToLots(m, s) ==
  LET native == MathRound(s.num * Pow10(m.quoteDecimals), s.den)
  IN  native \div m.quoteLotSize

\* Math.round((price * 10^quoteDecimals * baseLotSize)
\*            / (10^baseDecimals * quoteLotSize))
priceNumberToLots(m, p) ==
  MathRound(p.num * Pow10(m.quoteDecimals) * m.baseLotSize,
            p.den * Pow10(m.baseDecimals) * m.quoteLotSize)

InitLots ==
  /\ market \in [baseLotSize : 1..MaxLotSize, quoteLotSize : 1..MaxLotSize,
                 baseDecimals : 0..MaxDecimals, quoteDecimals : 0..MaxDecimals]
  /\ sizeArg \in [num : 0..MaxSizeNum, den : SizeDens]
  /\ NoBook /\ NoData /\ NoKeys
  /\ NoConnection
  /\ op = NoOp
  /\ ret = <<>>

\* market.baseSizeNumberToLots(size)
BaseSizeNumberToLots ==
  /\ op' = [name |-> "baseSizeNumberToLots"]
  /\ ret' = baseSizeNumberToLots(market, sizeArg)
  /\ UNCHANGED <<market, isBids, slab, calls, data, sizeArg, keys, connection>>

\* market.quoteSizeNumberToLots(size)
QuoteSizeNumberToLots ==
  /\ op' = [name |-> "quoteSizeNumberToLots"]
  /\ ret' = quoteSizeNumberToLots(market, sizeArg)
  /\ UNCHANGED <<market, isBids, slab, calls, data, sizeArg, keys, connection>>

\* market.baseSizeLotsToNumber(lots), lots being what baseSizeNumberToLots gave
BaseSizeLotsToNumber ==
  /\ op.name = "baseSizeNumberToLots"
  /\ op' = [name |-> "baseSizeLotsToNumber", lots |-> ret]
  /\ ret' = baseSizeLotsToNumber(market, ret)
  /\ UNCHANGED <<market, isBids, slab, calls, data, sizeArg, keys, connection>>

\* market.priceNumberToLots(price), the price being the number in sizeArg
PriceNumberToLots ==
  /\ op' = [name |-> "priceNumberToLots"]
  /\ ret' = priceNumberToLots(market, sizeArg)
  /\ UNCHANGED <<market, isBids, slab, calls, data, sizeArg, keys, connection>>

NextLots ==
  \/ BaseSizeNumberToLots
  \/ QuoteSizeNumberToLots
  \/ BaseSizeLotsToNumber
  \/ PriceNumberToLots

SpecLots == InitLots /\ [][NextLots]_vars

----------------------------------------------------------------------------
(* getPriceFromKey on keys of every shape *)

\* a 64-bit value with one byte set
OneByte(i, v) == [j \in 1..HalfBytes |-> IF j = i THEN v ELSE 0]

U64Samples ==
  {[j \in 1..HalfBytes |-> 0], [j \in 1..HalfBytes |-> 255]}
    \cup {OneByte(i, v) : i \in {1, HalfBytes}, v \in {1, 128}}

KeySamples == {MakeKey(p, q) : p \in U64Samples, q \in U64Samples}

InitKey ==
  /\ market = BookMarket
  /\ NoBook /\ NoData /\ NoSize
  /\ NoConnection
  /\ keys \in KeySamples \X KeySamples
  /\ op = [name |-> "none", done |-> {}]
  /\ ret = <<<<>>, <<>>>>

\* getPriceFromKey(key) for one of the two keys
GetPriceFromKey ==
  /\ \E i \in 1..2 :
       /\ i \notin op.done
       /\ ret' = [ret EXCEPT ![i] = getPriceFromKey(keys[i])]
       /\ op' = [name |-> "getPriceFromKey", done |-> op.done \cup {i}]
  /\ UNCHANGED <<market, isBids, slab, calls, data, sizeArg, keys, connection>>

NextKey == GetPriceFromKey

SpecKey == InitKey /\ [][NextKey]_vars

----------------------------------------------------------------------------
(* Decoding an order-book account: the buffer-layout primitives, the slab
   layouts of part_002 and ORDERBOOK_LAYOUT / Orderbook.decode, market.ts
   501-523 *)

MaxNodes == 2       \* nodes written into a generated account

\* a field of a struct; property "" is a field without a name
Field(property, kind, span) == [property |-> property, kind |-> kind, span |-> span]

u8(property) == Field(property, "uint", 1)

u32(property) == Field(property, "uint", 4)

\* u64, u128 and publicKeyLayout: span bytes, kept as they lie (lowest first)
u64(property) == Field(property, "bytes", 8)

u128(property) == Field(property, "bytes", 16)

publicKeyLayout(property) == Field(property, "bytes", 32)

accountFlagsLayout(property) == Field(property, "flags", 8)

blob(length) == Field("", "blob", length)

zeros(length) == Field("", "blob", length)

\* seq(u32(), count, property)
seqU32(count, property) == Field(property, "seq", 4 * count)

\* seq(u128(), count, property)
seqU128(count, property) == Field(property, "seq128", 16 * count)

Ok(value) == [error |-> "none", value |-> value]

Thrown(error) == [error |-> error, value |-> <<>>]

\* a statement after a call that may throw: an error thrown ends the function
\* with it, a value returned is handed to the rest of the function
Bind(r, Rest(_)) == IF r.error # "none" THEN r ELSE Rest(r.value)

\* UInt.decode: Buffer.readUIntLE throws a RangeError when the bytes do not
\* all lie in the buffer
UIntDecode(b, offset, span) ==
  IF offset + span > Len(b) THEN Thrown("RangeError")
  ELSE Ok(BytesToNat(slice(b, offset, offset + span)))

\* Blob.decode: b.slice(offset, offset + span), which stops at the end of the
\* buffer
BlobDecode(b, offset, span) == Ok(slice(b, offset, offset + span))

\* Sequence.decode of u32 elements, count fixed
SeqU32Decode(b, offset, span) ==
  IF offset + span > Len(b) THEN Thrown("RangeError")
  ELSE Ok([i \in 1..(span \div 4) |->
             BytesToNat(slice(b, offset + 4 * (i - 1), offset + 4 * i))])

\* the booleans of the account flags, lowest bit first
AccountFlagNames ==
  <<"initialized", "market", "openOrders", "requestQueue", "eventQueue", "bids", "asks">>

\* WideBits.decode: two u32 words, a boolean per bit
AccountFlagsDecode(b, offset) ==
  Bind(UIntDecode(b, offset, 4), LAMBDA lower :
    Bind(UIntDecode(b, offset + 4, 4), LAMBDA upper :
      Ok([p \in {AccountFlagNames[i] : i \in 1..Len(AccountFlagNames)} |->
            LET i == CHOOSE i \in 1..Len(AccountFlagNames) : AccountFlagNames[i] = p
            IN  (lower \div Pow2(i - 1)) % 2 = 1])))

\* the decode of u64, u128 and publicKeyLayout: it fails when fewer than span
\* bytes remain
BytesDecode(b, offset, span) ==
  IF offset + span > Len(b) THEN Thrown("TruncatedBuffer")
  ELSE Ok(slice(b, offset, offset + span))

\* Sequence.decode of u128 elements, count fixed: the first element the
\* buffer does not hold fails
SeqU128Decode(b, offset, span) ==
  IF offset + span > Len(b) THEN Thrown("TruncatedBuffer")
  ELSE Ok([i \in 1..(span \div 16) |-> slice(b, offset + 16 * (i - 1), offset + 16 * i)])

FieldDecode(fd, b, offset) ==
  CASE fd.kind = "uint" -> UIntDecode(b, offset, fd.span)
    [] fd.kind = "seq" -> SeqU32Decode(b, offset, fd.span)
    [] fd.kind = "seq128" -> SeqU128Decode(b, offset, fd.span)
    [] fd.kind = "bytes" -> BytesDecode(b, offset, fd.span)
    [] fd.kind = "flags" -> AccountFlagsDecode(b, offset)
    [] OTHER -> BlobDecode(b, offset, fd.span)

RECURSIVE SpanOf(_)
\* Structure.span: the sum of the spans of the fields
SpanOf(fields) == IF fields = <<>> THEN 0 ELSE Head(fields).span + SpanOf(Tail(fields))

\* Structure.offsetOf: where field i starts
OffsetOf(fields, i) == SpanOf(SubSeq(fields, 1, i - 1))

\* Structure.decode: the named fields are decoded, each at its offset; the
\* fields without a name are stepped over
\* the object a struct decodes to, from what its named fields decoded to: the
\* first error thrown, or the values by property
StructOf(fields, got) ==
  LET failed == {i \in DOMAIN got : got[i].error # "none"}
  IN  IF failed # {} THEN got[CHOOSE i \in failed : \A j \in failed : i <= j]
      ELSE Ok([p \in {fields[i].property : i \in DOMAIN got} |->
                 got[CHOOSE i \in DOMAIN got : fields[i].property = p].value])

StructDecode(fields, b, offset) ==
  StructOf(fields, [i \in {i \in 1..Len(fields) : fields[i].property # ""} |->
                      FieldDecode(fields[i], b, offset + OffsetOf(fields, i))])

\* the header without its last spacer
SlabHeaderShort ==
  <<u32("bumpIndex"), zeros(4), u32("freeListLen"), zeros(4), u32("freeListHead"),
    u32("root"), u32("leafCount")>>

SLAB_HEADER_LAYOUT ==
  <<u32("bumpIndex"), zeros(4), u32("freeListLen"), zeros(4), u32("freeListHead"),
    u32("root"), u32("leafCount"), zeros(4)>>

\* the variants added to SLAB_NODE_LAYOUT, by discriminant
SlabNodeVariants ==
  [tag \in 0..4 |->
     CASE tag = 0 -> [property |-> "uninitialized", fields |-> <<>>]
       [] tag = 1 -> [property |-> "innerNode",
                      fields |-> <<u32("prefixLen"), u128("key"), seqU32(2, "children")>>]
       [] tag = 2 -> [property |-> "leafNode",
                      fields |-> <<u8("ownerSlot"), blob(3), u128("key"),
                                   publicKeyLayout("owner"), u64("quantity")>>]
       [] tag = 3 -> [property |-> "freeNode", fields |-> <<u32("next")>>]
       [] tag = 4 -> [property |-> "lastFreeNode", fields |-> <<>>]]

\* union(u32('tag'), blob(60), 'node'): the discriminator and the default layout
SlabNodeDiscriminator == u32("tag")

SlabNodeDefault == blob(60)

\* Union.decode: a registered discriminant selects its variant, whose fields
\* are read after the discriminator; any other discriminant is returned with
\* the bytes of the default layout as its content. The decoded node carries the
\* name of its variant in tag and the variant's fields beside it.
UnionDecode(b, offset) ==
  Bind(UIntDecode(b, offset, SlabNodeDiscriminator.span), LAMBDA discr :
    IF discr \in DOMAIN SlabNodeVariants
    THEN Bind(StructDecode(SlabNodeVariants[discr].fields, b,
                           offset + SlabNodeDiscriminator.span),
              LAMBDA content :
                Ok([p \in {"tag"} \cup DOMAIN content |->
                      IF p = "tag" THEN SlabNodeVariants[discr].property ELSE content[p]]))
    ELSE Bind(BlobDecode(b, offset + SlabNodeDiscriminator.span, SlabNodeDefault.span),
              LAMBDA content :
                Ok([tag |-> "default", discriminant |-> discr, content |-> content])))

\* a union whose span is that of the variant it holds
UnionSpanOfVariant(b, offset) ==
  LET discr == UIntDecode(b, offset, SlabNodeDiscriminator.span)
  IN  IF discr.error = "none" /\ discr.value \in DOMAIN SlabNodeVariants
      THEN SlabNodeDiscriminator.span + SpanOf(SlabNodeVariants[discr.value].fields)
      ELSE SlabNodeDiscriminator.span + SlabNodeDefault.span

\* Union.getSpan with a default layout: the discriminator and the default
\* layout, whatever the variant
UnionSpan(b, offset) == SlabNodeDiscriminator.span + SlabNodeDefault.span

RECURSIVE SeqDecode(_, _, _, _)
\* Sequence.decode: count elements, each where the one before it ends
SeqDecode(b, offset, count, out) ==
  IF count = 0 THEN Ok(out)
  ELSE Bind(UnionDecode(b, offset), LAMBDA node :
         SeqDecode(b, offset + UnionSpan(b, offset), count - 1, Append(out, node)))

\* the sequence takes every whole node the rest of the buffer holds
NodeCountByLength(b, offset) == Ok((Len(b) - Min(offset, Len(b))) \div UnionSpan(b, offset))

\* the count of the nodes sequence, offset(layoutFor('bumpIndex'),
\* offsetOf('bumpIndex') - span): the u32 bumpIndex, found from where the
\* sequence starts
NodeCount(b, offset) ==
  UIntDecode(b, offset + (OffsetOf(SLAB_HEADER_LAYOUT, 1) - SpanOf(SLAB_HEADER_LAYOUT)), 4)

\* SLAB_LAYOUT.decode(b, offset)
SlabDecode(b, offset) ==
  Bind(StructDecode(SLAB_HEADER_LAYOUT, b, offset), LAMBDA header :
    Bind(NodeCount(b, offset + SpanOf(SLAB_HEADER_LAYOUT)), LAMBDA count :
      Bind(SeqDecode(b, offset + SpanOf(SLAB_HEADER_LAYOUT), count, <<>>), LAMBDA nodes :
        Ok([header |-> header, nodes |-> nodes]))))

\* one of the two flags, or both
EitherSide(bids, asks) == bids \/ asks

\* accountFlags.bids ^ accountFlags.asks
BidsXorAsks(bids, asks) == bids # asks

\* new Orderbook(market, accountFlags, slab)
OrderbookNew(accountFlags, s) ==
  IF ~accountFlags.initialized \/ ~BidsXorAsks(accountFlags.bids, accountFlags.asks)
  THEN Thrown("Invalid orderbook")
  ELSE Ok([isBids |-> accountFlags.bids, slab |-> s])

\* Orderbook.decode(market, buffer): ORDERBOOK_LAYOUT is the account flags
\* followed by the slab
OrderbookDecode(b) ==
  Bind(AccountFlagsDecode(b, 0), LAMBDA accountFlags :
    Bind(SlabDecode(b, accountFlagsLayout("accountFlags").span), LAMBDA s :
      OrderbookNew(accountFlags, s)))

\* the accounts the model decodes: each is written as the external program
\* lays it out, then cut short or declared longer than it is

\* bytes followed by zeros up to length n
Pad(bytes, n) == bytes \o [i \in 1..(n - Len(bytes)) |-> 0]

\* a node as it lies in the account: the tag, then 60 bytes of payload
NodeBytes(tag, payload) == Bytes(tag, 4) \o Pad(payload, 60)

SampleKey == MakeKey(Bytes(1, HalfBytes), Bytes(1, HalfBytes))

\* one node of each kind, and one with a tag that is no kind
NodeSamples ==
  {NodeBytes(0, <<>>),
   NodeBytes(1, Bytes(64, 4) \o SampleKey \o Bytes(1, 4) \o Bytes(2, 4)),
   NodeBytes(2, <<1, 0, 0, 0>> \o SampleKey \o [i \in 1..32 |-> 7] \o Bytes(3, 8)),
   NodeBytes(3, Bytes(1, 4)),
   NodeBytes(4, <<>>),
   NodeBytes(5, [i \in 1..60 |-> 9])}

RECURSIVE Concat(_)
Concat(seqs) == IF seqs = <<>> THEN <<>> ELSE Head(seqs) \o Concat(Tail(seqs))

TagsOf(nodes) == [i \in 1..Len(nodes) |-> nodes[i][1]]

HeaderBytes(bumpIndex, nodes) ==
  LET tags == TagsOf(nodes)
      free == Cardinality({i \in 1..Len(tags) : tags[i] \in {3, 4}})
      leaves == Cardinality({i \in 1..Len(tags) : tags[i] = 2})
  IN  Bytes(bumpIndex, 4) \o Bytes(0, 4) \o Bytes(free, 4) \o Bytes(0, 4)
        \o Bytes(0, 4) \o Bytes(0, 4) \o Bytes(leaves, 4) \o Bytes(0, 4)

FlagsBytes(initialized, bids, asks) ==
  Bytes((IF initialized THEN 1 ELSE 0) + (IF bids THEN 32 ELSE 0)
          + (IF asks THEN 64 ELSE 0), 8)

\* how many bytes of the last node the account holds: the tag alone, the tag
\* and four bytes, or all of it
KeptBytes == {4, 8, 64}

AccountBytes(flags, bumpIndex, nodes, kept) ==
  LET whole == flags \o HeaderBytes(bumpIndex, nodes) \o Concat(nodes)
  IN  SubSeq(whole, 1, Len(whole) - (IF nodes = <<>> THEN 0 ELSE 64 - kept))

InitDecode ==
  /\ market = BookMarket
  /\ NoBook /\ NoSize /\ NoKeys
  /\ NoConnection
  /\ \E initialized, bids, asks \in BOOLEAN :
       \E n \in 0..MaxNodes :
         \E nodes \in [1..n -> NodeSamples] :
           \E bumpIndex \in 0..(n + 1) :
             \E kept \in KeptBytes :
               data = AccountBytes(FlagsBytes(initialized, bids, asks), bumpIndex,
                                   nodes, kept)
  /\ op = NoOp
  /\ ret = <<>>

\* Orderbook.decode(market, data)
Decode ==
  /\ op.name = "none"
  /\ LET r == OrderbookDecode(data)
     IN  /\ ret' = [error |-> r.error]
         /\ IF r.error = "none"
            THEN isBids' = r.value.isBids /\ slab' = r.value.slab
            ELSE UNCHANGED <<isBids, slab>>
  /\ op' = [name |-> "decode"]
  /\ UNCHANGED <<market, calls, data, sizeArg, keys, connection>>

NextDecode == Decode

SpecDecode == InitDecode /\ [][NextDecode]_vars

----------------------------------------------------------------------------
(* Market.load, market.ts 67-88 and market.js 59-77, and getMintDecimals,
   market.ts 576-586 and market.js 480-484 *)

MARKET_STATE_LAYOUT ==
  <<accountFlagsLayout("accountFlags"),
    publicKeyLayout("ownAddress"),
    u64("vaultSignerNonce"),
    publicKeyLayout("baseMint"), publicKeyLayout("quoteMint"),
    publicKeyLayout("baseVault"), u64("baseDepositsTotal"), u64("baseFeesAccrued"),
    publicKeyLayout("quoteVault"), u64("quoteDepositsTotal"), u64("quoteFeesAccrued"),
    u64("quoteDustThreshold"),
    publicKeyLayout("requestQueue"), publicKeyLayout("eventQueue"),
    publicKeyLayout("bids"), publicKeyLayout("asks"),
    u64("baseLotSize"), u64("quoteLotSize"),
    u64("feeRateBps")>>

MINT_LAYOUT == <<blob(36), u8("decimals"), blob(3)>>

\* a public key: 32 bytes, here one byte repeated
PublicKey(k) == [i \in 1..32 |-> k]

DEX_PROGRAM_ID == PublicKey(9)

\* what getAccountInfo answers for an address that holds no account
Null == [null |-> TRUE]

AccountInfo(owner, bytes) == [null |-> FALSE, owner |-> owner, data |-> bytes]

\* connection.getAccountInfo(address)
getAccountInfo(conn, address) ==
  IF address \in DOMAIN conn THEN conn[address] ELSE Null

\* throwIfNull(value, message)
throwIfNull(value, message) == IF value.null THEN Thrown(message) ELSE Ok(value)

\* const { owner, data } = value: a TypeError when value is null
Destructure(value) == IF value.null THEN Thrown("TypeError") ELSE Ok(value)

\* the account as each file takes it from getAccountInfo: market.ts through
\* throwIfNull, market.js by destructuring the answer
Fetch(file, conn, address, message) ==
  IF file = "market.ts" THEN throwIfNull(getAccountInfo(conn, address), message)
  ELSE Destructure(getAccountInfo(conn, address))

\* getMintDecimals(connection, mint)
getMintDecimals(file, conn, mint) ==
  Bind(Fetch(file, conn, mint, "mint not found"), LAMBDA info :
    Bind(StructDecode(MINT_LAYOUT, info.data, 0), LAMBDA decoded :
      Ok(decoded.decimals)))

\* new Market(decoded, baseMintDecimals, quoteMintDecimals)
MarketNew(decoded, baseMintDecimals, quoteMintDecimals) ==
  IF ~decoded.accountFlags.initialized \/ ~decoded.accountFlags.market
  THEN Thrown("Invalid market state")
  ELSE Ok([address |-> decoded.ownAddress,
           baseLotSize |-> BytesToNat(strip(decoded.baseLotSize)),
           quoteLotSize |-> BytesToNat(strip(decoded.quoteLotSize)),
           baseDecimals |-> baseMintDecimals,
           quoteDecimals |-> quoteMintDecimals])

\* the arrangements of a finite set in a row
Orderings(S) ==
  {row \in [1..Cardinality(S) -> S] : \A i, j \in 1..Cardinality(S) : row[i] = row[j] => i = j}

\* the values in the order in which the promises settled
PromiseAllByArrival(promises, arrival) ==
  LET failed == {i \in 1..Len(arrival) : promises[arrival[i]].error # "none"}
  IN  IF failed # {} THEN promises[arrival[CHOOSE i \in failed : \A j \in failed : i <= j]]
      ELSE Ok([i \in 1..Len(promises) |-> promises[arrival[i]].value])

\* Promise.all(promises), the promises settling in the order arrival: the
\* error of the first that fails, or the values, each at the place of its
\* promise
PromiseAll(promises, arrival) ==
  LET failed == {i \in 1..Len(arrival) : promises[arrival[i]].error # "none"}
  IN  IF failed # {} THEN promises[arrival[CHOOSE i \in failed : \A j \in failed : i <= j]]
      ELSE Ok([i \in 1..Len(promises) |-> promises[i].value])

\* Market.load(connection, address): the outcomes it can have. The two
\* getMintDecimals run together under Promise.all and settle in either order.
MarketLoad(file, conn, address) ==
  LET info == Fetch(file, conn, address, "Market not found")
  IN  IF info.error # "none" THEN {info}
      ELSE IF ~eq(info.value.owner, DEX_PROGRAM_ID)
      THEN {Thrown("Address not owned by program")}
      ELSE LET decoded == StructDecode(MARKET_STATE_LAYOUT, info.value.data, 0)
           IN  IF decoded.error # "none" THEN {decoded}
               ELSE IF \/ ~decoded.value.accountFlags.initialized
                       \/ ~decoded.value.accountFlags.market
                       \/ ~eq(decoded.value.ownAddress, address)
               THEN {Thrown("Invalid market")}
               ELSE LET base == getMintDecimals(file, conn, decoded.value.baseMint)
                        quote == getMintDecimals(file, conn, decoded.value.quoteMint)
                    IN  {Bind(PromiseAll(<<base, quote>>, arrival), LAMBDA decimals :
                                MarketNew(decoded.value, decimals[1], decimals[2])) :
                           arrival \in Orderings({1, 2})}

MarketAddress == PublicKey(1)

BaseMint == PublicKey(2)

QuoteMint == PublicKey(3)

\* an owner that is not the DEX program
TokenProgram == PublicKey(8)

\* a market account's data: its flags, its own address and its two mints,
\* lot sizes 1, the other fields zero; short by cut bytes
MarketBytes(initialized, isMarket, ownAddress, cut) ==
  LET span == SpanOf(MARKET_STATE_LAYOUT)
      head == Bytes((IF initialized THEN 1 ELSE 0) + (IF isMarket THEN 2 ELSE 0), 8)
                \o ownAddress \o Bytes(0, 8) \o BaseMint \o QuoteMint
      whole == Pad(head, span - 24) \o Bytes(1, 8) \o Bytes(1, 8) \o Bytes(0, 8)
  IN  SubSeq(whole, 1, span - cut)

\* a mint account's data, whole or cut before its decimals
MintBytes(decimals, cut) ==
  SubSeq(Pad(<<>>, 36) \o <<decimals, 0, 0, 0>>, 1, 40 - cut)

MarketAccounts ==
  {Null} \cup
  {AccountInfo(owner, MarketBytes(initialized, isMarket, ownAddress, cut)) :
     owner \in {DEX_PROGRAM_ID, TokenProgram},
     initialized \in BOOLEAN, isMarket \in BOOLEAN,
     ownAddress \in {MarketAddress, BaseMint}, cut \in {0, 1}}

MintAccounts ==
  {Null} \cup {AccountInfo(TokenProgram, MintBytes(decimals, 0)) : decimals \in 0..MaxDecimals}
         \cup {AccountInfo(TokenProgram, MintBytes(0, 4))}

InitLoad ==
  /\ market = BookMarket
  /\ NoBook /\ NoData /\ NoSize /\ NoKeys
  /\ \E m \in MarketAccounts : \E base, quote \in MintAccounts :
       connection = (MarketAddress :> m) @@ (BaseMint :> base) @@ (QuoteMint :> quote)
  /\ op = NoOp
  /\ ret = <<>>

\* Market.load(connection, address) of market.ts
Load ==
  /\ op.name = "none"
  /\ \E address \in {MarketAddress, BaseMint} :
       /\ ret' \in MarketLoad("market.ts", connection, address)
       /\ op' = [name |-> "load", file |-> "market.ts", address |-> address]
  /\ UNCHANGED <<market, isBids, slab, calls, data, sizeArg, keys, connection>>

\* Market.load(connection, address) of market.js
LoadJs ==
  /\ op.name = "none"
  /\ \E address \in {MarketAddress, BaseMint} :
       /\ ret' \in MarketLoad("market.js", connection, address)
       /\ op' = [name |-> "load", file |-> "market.js", address |-> address]
  /\ UNCHANGED <<market, isBids, slab, calls, data, sizeArg, keys, connection>>

NextLoad == Load \/ LoadJs

SpecLoad == InitLoad /\ [][NextLoad]_vars

----------------------------------------------------------------------------
(* Pool requests: PoolRequest, schema.ts 79-102, encodePoolRequest and
   decodePoolRequest, schema.ts 112-120 *)

MaxBasket == 2      \* quantities in a generated basket, beside the long one

BufferSize == 1000  \* Buffer.alloc(1000)

\* every byte turned over
Invert(b) == [i \in 1..Len(b) |-> 255 - b[i]]

RECURSIVE AddOne(_)
\* b + 1 within the width of b
AddOne(b) ==
  IF b = <<>> THEN <<>>
  ELSE IF b[1] = 255 THEN <<0>> \o AddOne(Tail(b))
  ELSE <<b[1] + 1>> \o Tail(b)

\* a signed BN: its sign and its magnitude as 8 bytes, lowest first
Signed(neg, mag) == [neg |-> neg, mag |-> mag]

\* i64 encode: BN.toTwos(64), written lowest byte first
toTwos(v) == IF v.neg THEN AddOne(Invert(v.mag)) ELSE v.mag

\* i64 decode: BN.fromTwos(64) of the 8 bytes
fromTwos(b) ==
  IF b[Len(b)] >= 128 THEN Signed(TRUE, AddOne(Invert(b))) ELSE Signed(FALSE, b)

\* the variants of a rustEnum, in the order of their discriminants
PoolActionVariants == <<"create", "redeem", "swap">>

PoolRequestVariants == <<"initialize", "getBasket", "transact">>

\* the discriminant of a variant: its place in the list, from 0
Discriminant(variants, name) == (CHOOSE i \in 1..Len(variants) : variants[i] = name) - 1

\* the elements of vec(i64()), one after the other, 8 bytes each
VecEncode(quantities) ==
  [i \in 1..(8 * Len(quantities)) |->
     toTwos(quantities[(i - 1) \div 8 + 1])[((i - 1) % 8) + 1]]

\* Basket.encode: the u32 length of quantities, then the quantities
BasketEncode(basket) == Bytes(Len(basket.quantities), 4) \o VecEncode(basket.quantities)

\* PoolAction.encode: the discriminant byte, then the variant; the amount of
\* create and redeem is a u64, held as [bn |-> its 8 bytes]
PoolActionEncode(action) ==
  <<Discriminant(PoolActionVariants, action.kind)>>
    \o (IF action.kind = "swap" THEN BasketEncode(action.value) ELSE action.value.bn)

\* InitializePoolRequest.encode: u8, u8, u16
InitializeEncode(v) ==
  <<v.vaultSignerNonce, v.assetsLength>> \o Bytes(v.customStateLength, 2)

\* PoolRequest.encode: the tag, the discriminant byte, then the variant
PoolRequestEncode(r) ==
  toBufferLE(POOL_REQUEST_TAG) \o <<Discriminant(PoolRequestVariants, r.kind)>>
    \o (IF r.kind = "initialize" THEN InitializeEncode(r.value)
        ELSE PoolActionEncode(r.value))

\* encodePoolRequest: the request is written into a buffer of BufferSize
\* zero bytes, and the bytes written are cut out of it; a write past the end
\* of the buffer throws
encodePoolRequest(r) ==
  LET bytes == PoolRequestEncode(r)
  IN  IF Len(bytes) > BufferSize THEN Thrown("RangeError")
      ELSE Ok(slice(bytes \o [i \in 1..(BufferSize - Len(bytes)) |-> 0], 0, Len(bytes)))

\* i64().decode: 8 bytes read as a two's complement number
I64Decode(b, offset) == Bind(BytesDecode(b, offset, 8), LAMBDA v : Ok(fromTwos(v)))

\* count elements of vec(i64()), from offset on: the first element the
\* buffer does not hold fails, and with it the vector
VecDecode(b, offset, count) ==
  LET held == Min(count, (Len(b) - offset) \div 8)
  IN  IF held < count THEN I64Decode(b, offset + 8 * held)
      ELSE Ok([i \in 1..count |-> I64Decode(b, offset + 8 * (i - 1)).value])

\* Basket.decode: the u32 length, then as many quantities
BasketDecode(b, offset) ==
  Bind(BytesDecode(b, offset, 4),
       LAMBDA n : Bind(VecDecode(b, offset + 4, BytesToNat(n)),
                       LAMBDA q : Ok([quantities |-> q])))

\* PoolAction.decode: the discriminant byte picks the variant
PoolActionDecode(b, offset) ==
  Bind(BytesDecode(b, offset, 1),
       LAMBDA d :
         IF d[1] >= Len(PoolActionVariants) THEN Thrown("UnknownDiscriminant")
         ELSE Bind(IF PoolActionVariants[d[1] + 1] = "swap"
                     THEN BasketDecode(b, offset + 1)
                     ELSE Bind(BytesDecode(b, offset + 1, 8), LAMBDA a : Ok([bn |-> a])),
                   LAMBDA v : Ok([kind |-> PoolActionVariants[d[1] + 1], value |-> v])))

\* InitializePoolRequest.decode
InitializeDecode(b, offset) ==
  Bind(UIntDecode(b, offset, 1),
       LAMBDA nonce : Bind(UIntDecode(b, offset + 1, 1),
         LAMBDA assets : Bind(UIntDecode(b, offset + 2, 2),
           LAMBDA custom : Ok([vaultSignerNonce |-> nonce, assetsLength |-> assets,
                               customStateLength |-> custom]))))

\* the rustEnum inside PoolRequest, given the bytes after the tag
PoolRequestPayloadDecode(b) ==
  Bind(BytesDecode(b, 0, 1),
       LAMBDA d :
         IF d[1] >= Len(PoolRequestVariants) THEN Thrown("UnknownDiscriminant")
         ELSE Bind(IF PoolRequestVariants[d[1] + 1] = "initialize"
                     THEN InitializeDecode(b, 1)
                     ELSE PoolActionDecode(b, 1),
                   LAMBDA v : Ok([kind |-> PoolRequestVariants[d[1] + 1], value |-> v])))

\* decodePoolRequest down to the request: the tag is checked, then the
\* payload layout decodes the bytes after it
PoolRequestDecode(b) ==
  LET tagged == decodePoolRequest(b)
  IN  IF ~tagged.ok THEN Thrown(tagged.error)
      ELSE PoolRequestPayloadDecode(tagged.value.bytes)

\* quantities and amounts: zero, one, the ends of the 64-bit ranges
U64Zero == Bytes(0, 8)

I64Max == <<255, 255, 255, 255, 255, 255, 255, 127>>

I64MinMag == <<0, 0, 0, 0, 0, 0, 0, 128>>

U64Max == <<255, 255, 255, 255, 255, 255, 255, 255>>

Quantities ==
  {Signed(FALSE, U64Zero), Signed(FALSE, Bytes(1, 8)), Signed(TRUE, Bytes(1, 8)),
   Signed(FALSE, I64Max), Signed(TRUE, I64MinMag)}

Amounts == {U64Zero, Bytes(1, 8), Bytes(65536 + 255, 8), U64Max}

\* the longest basket the buffer holds, and the one a quantity longer
FullBasket == (BufferSize - TagSpan - 1 - 1 - 4) \div 8

Baskets ==
  {[quantities |-> q] : q \in UNION {[1..n -> Quantities] : n \in 0..MaxBasket}}
    \cup {[quantities |-> [i \in 1..n |-> Signed(i % 2 = 0, Bytes(i, 8))]] :
            n \in {FullBasket, FullBasket + 1}}

PoolActions ==
  {[kind |-> k, value |-> [bn |-> a]] : k \in {"create", "redeem"}, a \in Amounts}
    \cup {[kind |-> "swap", value |-> basket] : basket \in Baskets}

PoolRequests ==
  {[kind |-> "initialize",
    value |-> [vaultSignerNonce |-> n, assetsLength |-> a, customStateLength |-> c]] :
      n \in {0, 255}, a \in {0, 2, 255}, c \in {0, 256, 65535}}
    \cup {[kind |-> k, value |-> a] : k \in {"getBasket", "transact"}, a \in PoolActions}

InitRequest ==
  /\ market = BookMarket
  /\ NoBook /\ NoData /\ NoSize /\ NoKeys /\ NoConnection
  /\ op = NoOp
  /\ ret = <<>>

\* encodePoolRequest(poolRequest); data is the buffer it returned
EncodePoolRequest ==
  \E r \in PoolRequests :
    /\ op' = [name |-> "encodePoolRequest", poolRequest |-> r]
    /\ ret' = encodePoolRequest(r)
    /\ data' = IF ret'.error = "none" THEN ret'.value ELSE <<>>
    /\ UNCHANGED <<market, isBids, slab, calls, sizeArg, keys, connection>>

\* decodePoolRequest(data) of the buffer the encoder returned
DecodePoolRequestBack ==
  /\ op.name = "encodePoolRequest"
  /\ data # <<>>
  /\ op' = [name |-> "decodePoolRequest", poolRequest |-> op.poolRequest]
  /\ ret' = PoolRequestDecode(data)
  /\ UNCHANGED <<market, isBids, slab, calls, data, sizeArg, keys, connection>>

NextRequest == EncodePoolRequest \/ DecodePoolRequestBack

SpecRequest == InitRequest /\ [][NextRequest]_vars

----------------------------------------------------------------------------
(* divideBnToNumber on numerators and denominators of every shape,
   market.ts 567-572 *)

MaxNumerator == 24    \* numerators 0..MaxNumerator
MaxDenominator == 6   \* denominators 1..MaxDenominator

\* sizeArg holds the two arguments: num the numerator, den the denominator
InitDivide ==
  /\ market = BookMarket
  /\ NoBook /\ NoData /\ NoKeys /\ NoConnection
  /\ sizeArg \in [num : 0..MaxNumerator, den : 1..MaxDenominator]
  /\ op = NoOp
  /\ ret = <<>>

\* divideBnToNumber(numerator, denominator)
DivideBnToNumber ==
  /\ op.name = "none"
  /\ op' = [name |-> "divideBnToNumber"]
  /\ ret' = divideBnToNumber(sizeArg.num, sizeArg.den)
  /\ UNCHANGED <<market, isBids, slab, calls, data, sizeArg, keys, connection>>

NextDivide == DivideBnToNumber

SpecDivide == InitDivide /\ [][NextDivide]_vars

----------------------------------------------------------------------------
(* OpenOrders, market.ts 388-497, and getFilteredProgramAccounts,
   market.ts 588-616 *)

MaxAccounts == 2    \* accounts the cluster holds

OrderSlots == 128   \* seq(u128(), 128, 'orders')

OPEN_ORDERS_LAYOUT ==
  <<accountFlagsLayout("accountFlags"),
    publicKeyLayout("market"), publicKeyLayout("owner"),
    u64("baseTokenFree"), u64("baseTokenTotal"),
    u64("quoteTokenFree"), u64("quoteTokenTotal"),
    u128("freeSlotBits"), u128("isBidBits"),
    seqU128(OrderSlots, "orders")>>

\* the offset after the named field
offsetOfNext(fields, property) ==
  LET i == CHOOSE i \in 1..Len(fields) : fields[i].property = property
  IN  OffsetOf(fields, i + 1)

\* Structure.offsetOf(property): the spans of the fields are added up until
\* the field of that name is met
offsetOf(fields, property) ==
  LET i == CHOOSE i \in 1..Len(fields) : fields[i].property = property
  IN  OffsetOf(fields, i)

\* the filters of findForMarketAndOwner; bytes is the address as toBase58()
\* writes it, which the cluster reads back into its 32 bytes
Filters(marketAddress, ownerAddress) ==
  <<[memcmp |-> [offset |-> offsetOf(OPEN_ORDERS_LAYOUT, "market"), bytes |-> marketAddress]],
    [memcmp |-> [offset |-> offsetOf(OPEN_ORDERS_LAYOUT, "owner"), bytes |-> ownerAddress]],
    [dataSize |-> SpanOf(OPEN_ORDERS_LAYOUT)]>>

\* the cluster's side of a filter: memcmp compares the bytes at the offset,
\* dataSize the length of the data
PassesFilter(bytes, filter) ==
  IF "memcmp" \in DOMAIN filter
  THEN /\ filter.memcmp.offset + Len(filter.memcmp.bytes) <= Len(bytes)
       /\ slice(bytes, filter.memcmp.offset, filter.memcmp.offset + Len(filter.memcmp.bytes))
            = filter.memcmp.bytes
  ELSE Len(bytes) = filter.dataSize

\* getFilteredProgramAccounts(connection, programId, filters): the accounts of
\* the program that pass every filter, in the order the cluster answers, which
\* is any order
getFilteredProgramAccounts(conn, programId, filters) ==
  LET passing == {a \in DOMAIN conn :
                    /\ ~conn[a].null
                    /\ conn[a].owner = programId
                    /\ \A i \in 1..Len(filters) : PassesFilter(conn[a].data, filters[i])}
  IN  {[i \in 1..Len(row) |-> [publicKey |-> row[i], accountInfo |-> conn[row[i]]]] :
         row \in Orderings(passing)}

\* new OpenOrders(address, decoded): the address and the decoded fields
OpenOrdersNew(address, decoded) ==
  [p \in {"address"} \cup DOMAIN decoded |->
     IF p = "address" THEN address ELSE decoded[p]]

\* OpenOrders.fromAccountInfo(address, accountInfo)
fromAccountInfo(address, accountInfo) ==
  IF ~eq(accountInfo.owner, DEX_PROGRAM_ID) THEN Thrown("Address not owned by program")
  ELSE Bind(StructDecode(OPEN_ORDERS_LAYOUT, accountInfo.data, 0), LAMBDA decoded :
         IF ~decoded.accountFlags.initialized \/ ~decoded.accountFlags.openOrders
         THEN Thrown("Invalid open orders account")
         ELSE Ok(OpenOrdersNew(address, decoded)))

\* accounts.map(fromAccountInfo): the first error thrown, or the array
MapFromAccountInfo(accounts) ==
  LET got == [i \in 1..Len(accounts) |->
                fromAccountInfo(accounts[i].publicKey, accounts[i].accountInfo)]
      failed == {i \in 1..Len(accounts) : got[i].error # "none"}
  IN  IF failed # {} THEN got[CHOOSE i \in failed : \A j \in failed : i <= j]
      ELSE Ok([i \in 1..Len(accounts) |-> got[i].value])

\* OpenOrders.findForMarketAndOwner(connection, marketAddress, ownerAddress):
\* the outcomes it can have, one for each order of the cluster's answer
findForMarketAndOwner(conn, marketAddress, ownerAddress) ==
  {MapFromAccountInfo(accounts) :
     accounts \in getFilteredProgramAccounts(conn, DEX_PROGRAM_ID,
                                             Filters(marketAddress, ownerAddress))}

OtherMarket == PublicKey(6)

Owner == PublicKey(4)

OtherOwner == PublicKey(5)

\* the addresses of the accounts the cluster holds
AccountAddresses == {PublicKey(20 + i) : i \in 1..MaxAccounts}

\* an open-orders account's data: the flags word, the two addresses, the 32
\* bytes of the four balances, the two bit sets (zero), the order ids, the
\* unused slots zero; short by cut bytes
OpenOrdersBytes(flags, marketAddress, ownerAddress, balances, orders, cut) ==
  LET span == SpanOf(OPEN_ORDERS_LAYOUT)
  IN  SubSeq(Pad(Bytes(flags, 8) \o marketAddress \o ownerAddress \o balances
                   \o Pad(<<>>, 32) \o Concat(orders), span),
             1, span - cut)

\* the flags word of an open-orders account: initialized and openOrders
OpenOrdersFlags == 1 + 4

SampleOrderId == MakeKey(Bytes(1, HalfBytes), Bytes(1, HalfBytes))

OtherOrderId == MakeKey(Bytes(2, HalfBytes), Bytes(1, HalfBytes))

\* accounts as the cluster can hold them: open-orders accounts of two markets
\* and two owners; one whose balances are the bytes of an address and whose
\* market is a third one; one too short; one of another program; one created
\* and not yet written
OpenOrdersAccounts ==
  {AccountInfo(DEX_PROGRAM_ID,
               OpenOrdersBytes(OpenOrdersFlags, m, o, Pad(<<>>, 32), <<SampleOrderId>>, 0)) :
     m \in {MarketAddress, OtherMarket}, o \in {Owner, OtherOwner}}
    \cup {AccountInfo(DEX_PROGRAM_ID,
                      OpenOrdersBytes(OpenOrdersFlags, OtherMarket, MarketAddress, Owner, <<>>, 0)),
          AccountInfo(DEX_PROGRAM_ID,
                      OpenOrdersBytes(OpenOrdersFlags, MarketAddress, Owner, Pad(<<>>, 32), <<>>, 16)),
          AccountInfo(TokenProgram,
                      OpenOrdersBytes(OpenOrdersFlags, MarketAddress, Owner, Pad(<<>>, 32), <<>>, 0)),
          AccountInfo(DEX_PROGRAM_ID, Pad(<<>>, SpanOf(OPEN_ORDERS_LAYOUT)))}

InitOpenOrders ==
  /\ market = BookMarket
  /\ NoBook /\ NoData /\ NoSize /\ NoKeys
  /\ connection \in [AccountAddresses -> OpenOrdersAccounts]
  /\ op = NoOp
  /\ ret = <<>>

\* OpenOrders.findForMarketAndOwner(connection, marketAddress, ownerAddress)
FindForMarketAndOwner ==
  /\ op.name = "none"
  /\ \E marketAddress \in {MarketAddress, OtherMarket}, ownerAddress \in {Owner, OtherOwner} :
       /\ op' = [name |-> "findForMarketAndOwner", marketAddress |-> marketAddress,
                 ownerAddress |-> ownerAddress,
                 filters |-> Filters(marketAddress, ownerAddress)]
       /\ ret' \in findForMarketAndOwner(connection, marketAddress, ownerAddress)
  /\ UNCHANGED <<market, isBids, slab, calls, data, sizeArg, keys, connection>>

NextOpenOrders == FindForMarketAndOwner

SpecOpenOrders == InitOpenOrders /\ [][NextOpenOrders]_vars

----------------------------------------------------------------------------
(* Placing and cancelling orders: makePlaceOrderTransaction and placeOrder,
   market.ts 153-215, makeCancelOrderTransaction, market.ts 225-259.  Each
   call is followed from await to await; op and ret hold, for each call, where
   it stands with what it has read, and what it has built. *)

\* the calls that can be in progress together
Callers == {1, 2}

Idle == [name |-> "none", pc |-> "idle"]

\* new Account(): a key no account of the cluster has, one for each call
NewAccount(c) == PublicKey(40 + c)

\* OpenOrders.makeCreateAccountTransaction(connection, marketAddress,
\* ownerAddress, newAccountAddress); lamports, the rent the cluster asks for
\* the space, is left out
makeCreateAccountTransaction(marketAddress, ownerAddress, newAccountAddress) ==
  [instruction |-> "createAccount", fromPubkey |-> ownerAddress,
   newAccountPubkey |-> newAccountAddress, space |-> SpanOf(OPEN_ORDERS_LAYOUT),
   programId |-> DEX_PROGRAM_ID]

\* DexInstructions.newOrder({...}); the queue and the vaults of the market are
\* left out
newOrder(m, params, openOrdersAddress) ==
  [instruction |-> "newOrder", market |-> MarketAddress, openOrders |-> openOrdersAddress,
   owner |-> params.owner, payer |-> params.payer, side |-> params.side,
   limitPrice |-> priceNumberToLots(m, params.price),
   maxQuantity |-> baseSizeNumberToLots(m, params.size),
   orderType |-> params.orderType]

\* the account taken is the last one returned
PlaceOrderTransactionLast(m, params, openOrdersAccounts, newOpenOrdersAccount) ==
  IF Len(openOrdersAccounts) = 0
  THEN [transaction |-> <<makeCreateAccountTransaction(MarketAddress, params.owner,
                                                       newOpenOrdersAccount),
                          newOrder(m, params, newOpenOrdersAccount)>>,
        signers |-> <<params.owner, newOpenOrdersAccount>>]
  ELSE [transaction |->
          <<newOrder(m, params, openOrdersAccounts[Len(openOrdersAccounts)].address)>>,
        signers |-> <<params.owner>>]

\* what makePlaceOrderTransaction returns, given the accounts it found and the
\* account it made when it found none
PlaceOrderTransaction(m, params, openOrdersAccounts, newOpenOrdersAccount) ==
  IF Len(openOrdersAccounts) = 0
  THEN [transaction |-> <<makeCreateAccountTransaction(MarketAddress, params.owner,
                                                       newOpenOrdersAccount),
                          newOrder(m, params, newOpenOrdersAccount)>>,
        signers |-> <<params.owner, newOpenOrdersAccount>>]
  ELSE [transaction |-> <<newOrder(m, params, openOrdersAccounts[1].address)>>,
        signers |-> <<params.owner>>]

\* account.orders.some((orderId) => orderId.eq(order.orderId))
ListsOrder(account, order) ==
  \E i \in 1..Len(account.orders) : eq(account.orders[i], order.orderId)

\* the last account that lists the order
findOpenOrdersAccountForOrderLast(openOrdersAccounts, order) ==
  LET listing == {i \in 1..Len(openOrdersAccounts) : ListsOrder(openOrdersAccounts[i], order)}
  IN  IF listing = {} THEN Null
      ELSE [null |-> FALSE,
            account |-> openOrdersAccounts[CHOOSE i \in listing : \A j \in listing : i >= j]]

\* findOpenOrdersAccountForOrder, after its await: the first account, in the
\* order returned, that lists the order, or null
findOpenOrdersAccountForOrder(openOrdersAccounts, order) ==
  LET listing == {i \in 1..Len(openOrdersAccounts) : ListsOrder(openOrdersAccounts[i], order)}
  IN  IF listing = {} THEN Null
      ELSE [null |-> FALSE,
            account |-> openOrdersAccounts[CHOOSE i \in listing : \A j \in listing : i <= j]]

\* DexInstructions.cancelOrder({...}); the queue of the market is left out
cancelOrder(openOrdersAddress, order) ==
  [instruction |-> "cancelOrder", market |-> MarketAddress, openOrders |-> openOrdersAddress,
   owner |-> order.owner, side |-> order.side, orderId |-> order.orderId,
   ownerSlot |-> order.ownerSlot]

\* makeCancelOrderTransaction, after the accounts of the owner were returned
CancelOrderTransaction(openOrdersAccounts, order) ==
  LET openOrdersAccount == findOpenOrdersAccountForOrder(openOrdersAccounts, order)
  IN  IF openOrdersAccount.null THEN Thrown("Order not found")
      ELSE Ok(<<cancelOrder(openOrdersAccount.account.address, order)>>)

\* the cluster after a transaction: an account created is written by the
\* newOrder that follows it in the same transaction
Land(conn, transaction) ==
  IF transaction[1].instruction = "createAccount"
  THEN (transaction[1].newAccountPubkey :>
          AccountInfo(transaction[1].programId,
                      OpenOrdersBytes(OpenOrdersFlags, transaction[2].market,
                                      transaction[2].owner, Pad(<<>>, 32), <<>>, 0)))
         @@ conn
  ELSE conn

Payer == PublicKey(7)

\* the accounts the cluster holds when the calls begin: none, or open-orders
\* accounts of the market, of the owner or of another, with one order each
OrdersAccounts ==
  {Null}
    \cup {AccountInfo(DEX_PROGRAM_ID,
                      OpenOrdersBytes(OpenOrdersFlags, MarketAddress, o, Pad(<<>>, 32), <<id>>, 0)) :
            o \in {Owner}, id \in {SampleOrderId, OtherOrderId}}
    \cup {AccountInfo(DEX_PROGRAM_ID,
                      OpenOrdersBytes(OpenOrdersFlags, MarketAddress, OtherOwner, Pad(<<>>, 32),
                                      <<SampleOrderId>>, 0))}

InitOrders ==
  /\ market = BookMarket
  /\ NoBook /\ NoData /\ NoSize /\ NoKeys
  /\ connection \in [AccountAddresses -> OrdersAccounts]
  /\ op = [c \in Callers |-> Idle]
  /\ ret = [c \in Callers |-> <<>>]

\* the call has built what it returns: placeOrder goes on to send it
Built(c, name, built) ==
  /\ ret' = [ret EXCEPT ![c] = Ok(built)]
  /\ op' = [op EXCEPT ![c].pc = IF name = "placeOrder" THEN "send" ELSE "done"]

\* placeOrder or makePlaceOrderTransaction up to the answer of
\* findOpenOrdersAccountsForOwner: with accounts found the transaction is
\* built at once, with none the call goes on to make an account
PlaceFind(c) ==
  /\ op[c].pc = "idle"
  /\ \E name \in {"placeOrder", "makePlaceOrderTransaction"} :
     \E found \in findForMarketAndOwner(connection, MarketAddress, Owner) :
       LET params == [owner |-> Owner, payer |-> Payer, side |-> "buy",
                      price |-> [num |-> 3, den |-> 2], size |-> [num |-> 5, den |-> 1],
                      orderType |-> "limit"]
           call == [name |-> name, pc |-> "find", params |-> params, found |-> found,
                    during |-> {d \in Callers : op[d].pc \in {"createAccount", "send"}}]
       IN  IF found.error # "none"
           THEN /\ op' = [op EXCEPT ![c] = [call EXCEPT !.pc = "done"]]
                /\ ret' = [ret EXCEPT ![c] = found]
           ELSE IF Len(found.value) = 0
           THEN /\ op' = [op EXCEPT ![c] = [call EXCEPT !.pc = "createAccount"]]
                /\ UNCHANGED ret
           ELSE /\ op' = [op EXCEPT ![c] =
                            [call EXCEPT !.pc = IF name = "placeOrder" THEN "send" ELSE "done"]]
                /\ ret' = [ret EXCEPT ![c] =
                             Ok(PlaceOrderTransaction(market, params, found.value, NewAccount(c)))]
  /\ UNCHANGED <<market, isBids, slab, calls, data, sizeArg, keys, connection>>

\* the call after makeCreateAccountTransaction answered
PlaceCreate(c) ==
  /\ op[c].pc = "createAccount"
  /\ Built(c, op[c].name,
           PlaceOrderTransaction(market, op[c].params, op[c].found.value, NewAccount(c)))
  /\ UNCHANGED <<market, isBids, slab, calls, data, sizeArg, keys, connection>>

\* connection.sendTransaction(transaction, signers): the cluster takes the
\* transaction, or it does not
PlaceSend(c) ==
  /\ op[c].pc = "send"
  /\ connection' \in {connection, Land(connection, ret[c].value.transaction)}
  /\ op' = [op EXCEPT ![c].pc = "done"]
  /\ UNCHANGED <<market, isBids, slab, calls, data, sizeArg, keys, ret>>

\* makeCancelOrderTransaction(connection, order)
MakeCancelOrderTransaction(c) ==
  /\ op[c].pc = "idle"
  /\ \E orderId \in {SampleOrderId, OtherOrderId} :
     \E found \in findForMarketAndOwner(connection, MarketAddress, Owner) :
       LET order == [owner |-> Owner, orderId |-> orderId, side |-> "buy", ownerSlot |-> 0]
       IN  /\ op' = [op EXCEPT ![c] = [name |-> "makeCancelOrderTransaction", pc |-> "done",
                                       order |-> order, found |-> found]]
           /\ ret' = [ret EXCEPT ![c] =
                        Bind(found, LAMBDA openOrdersAccounts :
                               CancelOrderTransaction(openOrdersAccounts, order))]
  /\ UNCHANGED <<market, isBids, slab, calls, data, sizeArg, keys, connection>>

NextOrders ==
  \E c \in Callers :
    \/ PlaceFind(c)
    \/ PlaceCreate(c)
    \/ PlaceSend(c)
    \/ MakeCancelOrderTransaction(c)

SpecOrders == InitOrders /\ [][NextOrders]_vars

----------------------------------------------------------------------------
(* The account layouts of market-state.js, 17-63, beside those of market.ts *)

\* MARKET_STATE_LAYOUT of market-state.js
STATE_JS_MARKET_STATE_LAYOUT ==
  <<accountFlagsLayout("accountFlags"),
    publicKeyLayout("ownAddress"),
    u64("vaultSignerNonce"),
    publicKeyLayout("baseMint"), publicKeyLayout("quoteMint"),
    publicKeyLayout("baseVault"), u64("baseDepositsTotal"), u64("baseFeesAccrued"),
    publicKeyLayout("quoteVault"), u64("quoteDepositsTotal"), u64("quoteFeesAccrued"),
    u64("quoteDustThreshold"),
    publicKeyLayout("requestQueue"), publicKeyLayout("eventQueue"),
    publicKeyLayout("bids"), publicKeyLayout("asks"),
    u64("baseLotSize"), u64("quoteLotSize")>>

\* OPEN_ORDERS_LAYOUT of market-state.js
STATE_JS_OPEN_ORDERS_LAYOUT ==
  <<accountFlagsLayout("accountFlags"),
    publicKeyLayout("market"), publicKeyLayout("owner"),
    u64("baseTotal"), u64("baseFree"),
    u64("quoteTotal"), u64("quoteFree"),
    u128("freeSlotBits"), u128("isBidBits"),
    seqU128(OrderSlots, "orders")>>

MaxBalance == 2     \* balances 0..MaxBalance in a generated account

\* account data: open-orders accounts with every four balances, market
\* accounts with and without their last field
LayoutSamples ==
  {OpenOrdersBytes(OpenOrdersFlags, MarketAddress, Owner,
                   Bytes(bal[1], 8) \o Bytes(bal[2], 8) \o Bytes(bal[3], 8) \o Bytes(bal[4], 8),
                   <<SampleOrderId>>, 0) :
     bal \in [1..4 -> 0..MaxBalance]}
    \cup {MarketBytes(initialized, TRUE, ownAddress, cut) :
            initialized \in BOOLEAN, ownAddress \in {MarketAddress, BaseMint},
            cut \in {0, 8, 16}}

InitLayouts ==
  /\ market = BookMarket
  /\ NoBook /\ NoSize /\ NoKeys /\ NoConnection
  /\ data \in LayoutSamples
  /\ op = NoOp
  /\ ret = <<>>

\* MARKET_STATE_LAYOUT.decode(data), by market.ts and by market-state.js
DecodeMarketState ==
  /\ op.name = "none"
  /\ op' = [name |-> "MARKET_STATE_LAYOUT.decode"]
  /\ ret' = [ts |-> StructDecode(MARKET_STATE_LAYOUT, data, 0),
             js |-> StructDecode(STATE_JS_MARKET_STATE_LAYOUT, data, 0)]
  /\ UNCHANGED <<market, isBids, slab, calls, data, sizeArg, keys, connection>>

\* OPEN_ORDERS_LAYOUT.decode(data), by market.ts and by market-state.js
DecodeOpenOrders ==
  /\ op.name = "none"
  /\ op' = [name |-> "OPEN_ORDERS_LAYOUT.decode"]
  /\ ret' = [ts |-> StructDecode(OPEN_ORDERS_LAYOUT, data, 0),
             js |-> StructDecode(STATE_JS_OPEN_ORDERS_LAYOUT, data, 0)]
  /\ UNCHANGED <<market, isBids, slab, calls, data, sizeArg, keys, connection>>

NextLayouts == DecodeMarketState \/ DecodeOpenOrders

SpecLayouts == InitLayouts /\ [][NextLayouts]_vars

----------------------------------------------------------------------------
(* Orderbook.getL2 of market.js, 429-448 *)

\* levels.length > 0 && levels[levels.length - 1][0].equals(price): the price
\* of a level is a BN, which has eq and no equals, so the call of equals
\* throws
L2SamePriceJs(levels, price) ==
  IF Len(levels) > 0 THEN Thrown("TypeError") ELSE Ok(FALSE)

RECURSIVE L2LoopJs(_, _, _, _)
\* the for loop over this.slab.items(descending)
L2LoopJs(nodes, refs, levels, depth) ==
  IF refs = <<>> THEN Ok([nodes |-> nodes, levels |-> levels])
  ELSE LET leaf == nodes[Head(refs) + 1]
           price == getPriceFromKey(leaf.key)
       IN  Bind(L2SamePriceJs(levels, price), LAMBDA same :
             IF same
             THEN L2LoopJs(L2Merge(nodes, levels[Len(levels)].ref, leaf.quantity),
                           Tail(refs), levels, depth)
             ELSE IF L2Full(levels, depth)
             THEN Ok([nodes |-> nodes, levels |-> levels])
             ELSE L2LoopJs(nodes, Tail(refs), L2Push(levels, price, Head(refs)), depth))

\* sizeLots.mul(this.market.baseLotSize): the Market of market.js has no
\* baseLotSize (its lot size is this._decoded.baseLotSize), and mul of
\* undefined throws
L2SizeJs(m, sizeLots) == Thrown("TypeError")

\* the mapped levels: the first level that throws ends the map
L2MapJs(m, nodes, levels) ==
  LET got == [i \in 1..Len(levels) |->
                LET priceLots == levels[i].price
                    sizeLots == nodes[levels[i].ref + 1].quantity
                IN  Bind(L2SizeJs(m, sizeLots), LAMBDA size :
                      Ok([price |-> priceLotsToNumber(m, priceLots),
                          size |-> baseSizeLotsToNumber(m, size),
                          priceLots |-> priceLots,
                          sizeLots |-> sizeLots]))]
      failed == {i \in 1..Len(levels) : got[i].error # "none"}
  IN  IF failed # {} THEN got[CHOOSE i \in failed : \A j \in failed : i <= j]
      ELSE Ok([i \in 1..Len(levels) |-> got[i].value])

\* getL2(depth) of market.js: the error thrown, or the slab after the loop and
\* the mapped levels
getL2Js(m, bids, s, depth) ==
  Bind(L2LoopJs(s.nodes, items(s, L2Descending(bids)), <<>>, depth), LAMBDA done :
    Bind(L2MapJs(m, done.nodes, done.levels), LAMBDA levels :
      Ok([slab |-> [s EXCEPT !.nodes = done.nodes], levels |-> levels])))

\* orderbook.getL2(depth) of market.js
GetL2Js ==
  /\ calls < MaxCalls
  /\ \E depth \in 0..(MaxDepth + 1) :
       LET r == getL2Js(market, isBids, slab, depth)
       IN  /\ slab' = IF r.error = "none" THEN r.value.slab ELSE slab
           /\ ret' = IF r.error = "none" THEN Ok(r.value.levels) ELSE r
           /\ op' = [name |-> "getL2", file |-> "market.js", depth |-> depth, pre |-> slab]
  /\ calls' = calls + 1
  /\ UNCHANGED <<market, isBids, data, sizeArg, keys, connection>>

NextBookJs == GetL2Js

SpecBookJs == InitBook /\ [][NextBookJs]_vars

----------------------------------------------------------------------------
(* What the claims speak of, stated on the snapshot and not on the loop *)

\* the high 64 bits of a key: its upper eight bytes
HighBits(key) == [i \in 1..HalfBytes |-> key[HalfBytes + i]]

\* the leaf nodes of a slab
Leaves(s) == {i \in 1..Len(s.nodes) : s.nodes[i].tag = "leafNode"}

LeavesAt(s, price) == {i \in Leaves(s) : HighBits(s.nodes[i].key) = price}

PricesOf(s) == {HighBits(s.nodes[i].key) : i \in Leaves(s)}

RECURSIVE SumQuantity(_, _)
SumQuantity(s, I) ==
  IF I = {} THEN 0
  ELSE LET i == CHOOSE i \in I : TRUE
       IN  s.nodes[i].quantity + SumQuantity(s, I \ {i})

\* C1: every level getL2 returns carries the sum of the quantities of all the
\* leaves of the snapshot at its price, and no price has two levels.
C1_L2Aggregates ==
  op.name = "getL2" =>
    /\ \A i \in 1..Len(ret) :
         ret[i].sizeLots = SumQuantity(op.pre, LeavesAt(op.pre, ret[i].priceLots))
    /\ \A i, j \in 1..Len(ret) : ret[i].priceLots = ret[j].priceLots => i = j

\* two leaves at one price, quantities 2 and 3, returned as one level of size 5
C1_Witness ==
  /\ op.name = "getL2"
  /\ \E i \in 1..Len(ret) :
       /\ ret[i].sizeLots = 5
       /\ {op.pre.nodes[l].quantity : l \in LeavesAt(op.pre, ret[i].priceLots)} = {2, 3}

\* C2: getL2 leaves the quantity of every leaf of the held snapshot unchanged.
C2_L2KeepsSnapshot ==
  op.name = "getL2" =>
    \A i \in Leaves(op.pre) : slab.nodes[i].quantity = op.pre.nodes[i].quantity

\* C3: getL2(depth) returns min(depth, distinct prices) levels, the last one
\* complete, and getL2(1) on two prices returns the best level alone.
C3_L2Depth ==
  op.name = "getL2" =>
    /\ Len(ret) = Min(op.depth, Cardinality(PricesOf(op.pre)))
    /\ Len(ret) > 0 =>
         ret[Len(ret)].sizeLots =
           SumQuantity(op.pre, LeavesAt(op.pre, ret[Len(ret)].priceLots))
    /\ (op.depth = 1 /\ Cardinality(PricesOf(op.pre)) >= 2) =>
         /\ Len(ret) = 1
         /\ \A p \in PricesOf(op.pre) :
              p = ret[1].priceLots
                \/ (IF isBids THEN lt(p, ret[1].priceLots) ELSE lt(ret[1].priceLots, p))

\* the depth cuts the book: more prices than the depth asked for, and the last
\* level returned merges two leaves
C3_Witness ==
  /\ op.name = "getL2"
  /\ op.depth = 1
  /\ Cardinality(PricesOf(op.pre)) = 2
  /\ Len(ret) = 1
  /\ Cardinality(LeavesAt(op.pre, ret[1].priceLots)) = 2

\* C4: the levels are strictly descending in price for bids and strictly
\* ascending for asks.
C4_L2BestFirst ==
  op.name = "getL2" =>
    \A i \in 1..(Len(ret) - 1) :
      IF isBids THEN lt(ret[i + 1].priceLots, ret[i].priceLots)
      ELSE lt(ret[i].priceLots, ret[i + 1].priceLots)

\* a bid book answered with two levels
C4_Witness ==
  /\ op.name = "getL2"
  /\ isBids
  /\ Len(ret) = 2
  /\ Cardinality(Leaves(op.pre)) = 3

\* C5: iteration yields one Order per leaf, in the order getL2 walks that side
\* (descending keys for bids, ascending for asks), with the leaf's fields.
C5_IterationOrder ==
  op.name = "iterate" =>
    LET refs == items(op.pre, isBids)
    IN  /\ Len(ret) = Cardinality(Leaves(op.pre))
        /\ Len(ret) = Len(refs)
        /\ \A i \in 1..Len(ret) :
             LET leaf == op.pre.nodes[refs[i] + 1]
             IN  /\ ret[i].orderId = leaf.key
                 /\ ret[i].priceLots = HighBits(leaf.key)
                 /\ ret[i].sizeLots = leaf.quantity
                 /\ ret[i].side = (IF isBids THEN "buy" ELSE "sell")

----------------------------------------------------------------------------
(* The pool schema claims *)

\* the pool-state magic 16a7874c7fb2301b and the pool-request magic
\* 220a6cbdcd1cc4cf as they lie in a buffer, lowest byte first
StateMagicLE == <<27, 48, 178, 127, 76, 135, 167, 22>>

RequestMagicLE == <<207, 196, 28, 205, 189, 108, 10, 34>>

HasMagic(b, magic) == Len(b) >= Len(magic) /\ SubSeq(b, 1, Len(magic)) = magic

\* C6: isPoolState(data) is true exactly when data starts with the pool-state
\* magic, and is false on a buffer that starts with the pool-request magic.
C6_IsPoolStateMagic ==
  op.name = "isPoolState" =>
    /\ ret <=> HasMagic(data, StateMagicLE)
    /\ HasMagic(data, RequestMagicLE) => ~ret

\* C7: decoding a tagged record whose first 8 bytes are not the expected magic
\* fails, decodes no payload and returns no record.
C7_TagMismatchFails ==
  /\ (op.name = "decodePoolState" /\ ~HasMagic(data, StateMagicLE)) =>
       ~ret.ok /\ ~ret.payloadDecoded /\ ret.value = <<>>
  /\ (op.name = "decodePoolRequest" /\ ~HasMagic(data, RequestMagicLE)) =>
       ~ret.ok /\ ~ret.payloadDecoded /\ ret.value = <<>>

\* a buffer that carries the other record's magic, in full, is refused
C7_Witness ==
  /\ op.name = "decodePoolState"
  /\ HasMagic(data, RequestMagicLE)
  /\ Len(data) > TagSpan
  /\ ~ret.ok

----------------------------------------------------------------------------
(* The size conversion claims *)

\* C8: baseSizeNumberToLots(s) = floor(s * 10^baseDecimals / baseLotSize) and
\* quoteSizeNumberToLots(s) = floor(s * 10^quoteDecimals / quoteLotSize).
C8_SizeToLotsIsFloor ==
  /\ op.name = "baseSizeNumberToLots" =>
       ret = (sizeArg.num * Pow10(market.baseDecimals))
               \div (sizeArg.den * market.baseLotSize)
  /\ op.name = "quoteSizeNumberToLots" =>
       ret = (sizeArg.num * Pow10(market.quoteDecimals))
               \div (sizeArg.den * market.quoteLotSize)

\* C9: baseSizeLotsToNumber(baseSizeNumberToLots(s)) <= s.
C9_RoundTripNotAbove ==
  op.name = "baseSizeLotsToNumber" =>
    (ret.whole * ret.den + ret.num) * sizeArg.den <= sizeArg.num * ret.den

----------------------------------------------------------------------------
(* The key claim *)

RECURSIVE Inc(_)
\* b + 1
Inc(b) ==
  IF b = <<>> THEN <<1>>
  ELSE IF b[1] < 255 THEN <<b[1] + 1>> \o Tail(b)
  ELSE <<0>> \o Inc(Tail(b))

\* b * 2^64
Times2To64(b) == [i \in 1..HalfBytes |-> 0] \o b

\* q = floor(key / 2^64): q * 2^64 <= key < (q + 1) * 2^64
IsFloorDiv2To64(q, key) ==
  /\ ~lt(key, Times2To64(q))
  /\ lt(key, Times2To64(Inc(q)))

\* C10: getPriceFromKey(key) = floor(key / 2^64), a 64-bit value; keys that
\* differ only in their low 64 bits have one price; key order implies
\* non-strict price order.
C10_PriceIsHighHalf ==
  op.name = "getPriceFromKey" =>
    /\ \A i \in op.done :
         /\ IsFloorDiv2To64(ret[i], keys[i])
         /\ Len(strip(ret[i])) <= HalfBytes
    /\ op.done = {1, 2} =>
         /\ (\A j \in (HalfBytes + 1)..KeyBytes : keys[1][j] = keys[2][j])
              => eq(ret[1], ret[2])
         /\ lt(keys[1], keys[2]) => ~lt(ret[2], ret[1])

\* two different keys with one price, the lower one with the top bit of its
\* sequence number set
C10_Witness ==
  /\ op.name = "getPriceFromKey"
  /\ op.done = {1, 2}
  /\ keys[1] # keys[2]
  /\ keys[1][HalfBytes] = 128
  /\ eq(ret[1], ret[2])
  /\ strip(ret[1]) # <<>>

----------------------------------------------------------------------------
(* The slab traversal claims *)

RECURSIVE Reach(_, _, _)
\* the node indices met from index i in at most fuel steps down the children
Reach(s, i, fuel) ==
  IF i >= Len(s.nodes) \/ fuel = 0 \/ s.nodes[i + 1].tag # "innerNode" THEN {i}
  ELSE {i} \cup Reach(s, s.nodes[i + 1].children[1], fuel - 1)
           \cup Reach(s, s.nodes[i + 1].children[2], fuel - 1)

Below(s, i) == Reach(s, i, Len(s.nodes))

InnerNodes(s) == {i \in 0..(Len(s.nodes) - 1) : s.nodes[i + 1].tag = "innerNode"}

LeafKeysBelow(s, i) ==
  {s.nodes[j + 1].key : j \in {j \in Below(s, i) : j + 1 \in Leaves(s)}}

\* the tree invariants: every child index lies in the node array, no node is
\* its own descendant, no node has two parents, every key of a 0-branch is
\* below every key of the 1-branch beside it, and leafCount counts the leaves
TreeInvariants(s) ==
  /\ s.header.leafCount > 0
  /\ s.header.root < Len(s.nodes)
  /\ \A i \in InnerNodes(s) :
       LET zero == s.nodes[i + 1].children[1]
           one == s.nodes[i + 1].children[2]
       IN  /\ zero < Len(s.nodes) /\ one < Len(s.nodes)
           /\ i \notin Below(s, zero) \cup Below(s, one)
           /\ Below(s, zero) \cap Below(s, one) = {}
           /\ \A a \in LeafKeysBelow(s, zero) : \A b \in LeafKeysBelow(s, one) : lt(a, b)
  /\ s.header.leafCount =
       Cardinality({j \in Below(s, s.header.root) : j + 1 \in Leaves(s)})

\* where x stands in a sequence that holds it
PosIn(seq, x) == CHOOSE i \in 1..Len(seq) : seq[i] = x

PricesAlong(s, refs) == [i \in 1..Len(refs) |-> HighBits(s.nodes[refs[i] + 1].key)]

\* leaves at {price 5, seq 1}, {price 5, seq 2}, {price 3, seq 1}
ExampleSlab ==
  LET S == {MakeKey(Bytes(5, HalfBytes), Bytes(1, HalfBytes)),
            MakeKey(Bytes(5, HalfBytes), Bytes(2, HalfBytes)),
            MakeKey(Bytes(3, HalfBytes), Bytes(1, HalfBytes))}
  IN  BuildSlab(S, [k \in S |-> CHOOSE p \in LeafPayloads : TRUE])

\* C11: on a slab satisfying the tree invariants the ascending traversal takes
\* the 0-branch before the 1-branch at every inner node and yields every leaf in
\* rising key order, the descending traversal takes the 1-branch first and
\* yields them in falling key order; the example book gives prices 3,5,5
\* ascending and 5,5,3 descending.
C11_TraversalInKeyOrder ==
  (op.name = "items" /\ TreeInvariants(op.pre)) =>
    /\ ret.error = "none"
    /\ {ret.refs[i] + 1 : i \in 1..Len(ret.refs)} = Leaves(op.pre)
    /\ \A i \in InnerNodes(op.pre) :
         LET zero == PosIn(ret.path, op.pre.nodes[i + 1].children[1])
             one == PosIn(ret.path, op.pre.nodes[i + 1].children[2])
         IN  IF op.descending THEN one < zero ELSE zero < one
    /\ \A i, j \in 1..Len(ret.refs) :
         i < j =>
           LET a == op.pre.nodes[ret.refs[i] + 1].key
               b == op.pre.nodes[ret.refs[j] + 1].key
           IN  IF op.descending THEN lt(b, a) ELSE lt(a, b)
    /\ PricesAlong(ExampleSlab, Traverse(ExampleSlab, FALSE).refs)
         = <<Bytes(3, HalfBytes), Bytes(5, HalfBytes), Bytes(5, HalfBytes)>>
    /\ PricesAlong(ExampleSlab, Traverse(ExampleSlab, TRUE).refs)
         = <<Bytes(5, HalfBytes), Bytes(5, HalfBytes), Bytes(3, HalfBytes)>>

\* a descending traversal of three leaves, the first two at one price
C11_Witness ==
  /\ op.name = "items"
  /\ op.descending
  /\ TreeInvariants(op.pre)
  /\ Len(ret.refs) = 3
  /\ PricesAlong(op.pre, ret.refs)[1] = PricesAlong(op.pre, ret.refs)[2]
  /\ PricesAlong(op.pre, ret.refs)[2] # PricesAlong(op.pre, ret.refs)[3]

\* a child index of s that points at its own node, at an ancestor of it, or
\* outside the node array
PointsBackOrOutside(s) ==
  \E i \in InnerNodes(s) : \E c \in {1, 2} :
    LET target == s.nodes[i + 1].children[c]
    IN  target >= Len(s.nodes) \/ i \in Below(s, target)

\* C12: the traversal ends, having visited no node twice and yielded no more
\* than leafCount leaves; on a slab satisfying the tree invariants it yields
\* leafCount leaves without error; on a node array with a child index pointing
\* back to an ancestor or outside the array it fails with CorruptTree.
C12_TraversalTerminates ==
  op.name = "items" =>
    /\ \A i, j \in 1..Len(ret.path) : ret.path[i] = ret.path[j] => i = j
    /\ Len(ret.refs) <= op.pre.header.leafCount
    /\ TreeInvariants(op.pre) =>
         ret.error = "none" /\ Len(ret.refs) = op.pre.header.leafCount
    /\ PointsBackOrOutside(op.pre) => ret.error = "CorruptTree"

\* a traversal that failed on a child index pointing back into the array
C12_Witness ==
  /\ op.name = "items"
  /\ ret.error = "CorruptTree"
  /\ \E i \in InnerNodes(op.pre) : \E c \in {1, 2} :
       /\ op.pre.nodes[i + 1].children[c] < Len(op.pre.nodes)
       /\ i \in Below(op.pre, op.pre.nodes[i + 1].children[c])

\* C13: on a slab whose leafCount is 0 the traversal yields no leaf and no
\* error, iteration yields no order, and getL2 returns no level at any depth.
C13_EmptyBook ==
  (op.name # "none" /\ op.pre.header.leafCount = 0) =>
    /\ op.name = "items" => ret.refs = <<>> /\ ret.error = "none"
    /\ op.name = "iterate" => ret = <<>>
    /\ op.name = "getL2" => ret = <<>>

\* getL2 with a depth above 0 on an empty book whose node array is not empty
C13_Witness ==
  /\ op.name = "getL2"
  /\ op.depth > 0
  /\ op.pre.header.leafCount = 0
  /\ op.pre.nodes # <<>>
  /\ ret = <<>>

----------------------------------------------------------------------------
(* The account decoding claims *)

\* the u32 that lies at offset o of b
U32At(b, o) == BytesToNat(slice(b, o, o + 4))

\* the discriminant a decoded node was built from
TagNumber(node) ==
  CASE node.tag = "uninitialized" -> 0
    [] node.tag = "innerNode" -> 1
    [] node.tag = "leafNode" -> 2
    [] node.tag = "freeNode" -> 3
    [] node.tag = "lastFreeNode" -> 4
    [] OTHER -> node.discriminant

Decoded == op.name = "decode" /\ ret.error = "none"

\* C14: no node decoded from a tag outside 0..4 is returned: a decode that
\* meets such a tag fails.
C14_UnknownTagFails ==
  Decoded => \A i \in 1..Len(slab.nodes) : U32At(data, 40 + 64 * (i - 1)) \in 0..4

\* C15 as stated: the number of decoded nodes is the number of 64-byte nodes
\* that fit in the buffer after the header.
C15_CountByLength ==
  Decoded => Len(slab.nodes) = (Len(data) - 40) \div 64

\* C15 amended: the number of decoded nodes is the header's bumpIndex, whatever
\* the length of the buffer.
C15_CountIsBumpIndex ==
  Decoded =>
    /\ Len(slab.nodes) = U32At(data, 8)
    /\ Len(slab.nodes) = slab.header.bumpIndex

\* an account with room for more nodes than its header declares
C15_Witness ==
  /\ Decoded
  /\ Len(slab.nodes) >= 1
  /\ (Len(data) - 40) \div 64 > Len(slab.nodes)

\* C16: a header that declares more nodes than the buffer holds after it makes
\* the decode fail.
C16_OverflowFails ==
  (op.name = "decode" /\ Len(data) >= 40 /\ 40 + 64 * U32At(data, 8) > Len(data))
    => ret.error # "none"

\* C17 as stated: the header is four u32 fields and two spacers, 24 bytes, and
\* the first node lies right after them.
C17_HeaderIs24Bytes ==
  (Decoded /\ slab.nodes # <<>>) =>
    /\ Cardinality(DOMAIN slab.header) = 4
    /\ TagNumber(slab.nodes[1]) = U32At(data, 8 + 24)

\* C17 amended: the header is five u32 fields (bumpIndex, freeListLen,
\* freeListHead, root, leafCount) and three 4-byte spacers, 32 bytes, and the
\* first node lies right after them.
C17_HeaderIs32Bytes ==
  Decoded =>
    /\ DOMAIN slab.header = {"bumpIndex", "freeListLen", "freeListHead", "root", "leafCount"}
    /\ slab.header.bumpIndex = U32At(data, 8)
    /\ slab.header.freeListLen = U32At(data, 8 + 8)
    /\ slab.header.freeListHead = U32At(data, 8 + 16)
    /\ slab.header.root = U32At(data, 8 + 20)
    /\ slab.header.leafCount = U32At(data, 8 + 24)
    /\ slab.nodes # <<>> => TagNumber(slab.nodes[1]) = U32At(data, 8 + 32)

\* a decoded account whose first node is a leaf and whose second is free
C17_Witness ==
  /\ Decoded
  /\ slab.header.leafCount = 1
  /\ slab.header.freeListLen = 1
  /\ Len(slab.nodes) = 2
  /\ slab.nodes[1].tag = "leafNode"

\* C18: node i is decoded from the 64 bytes at header end + 64 * i, its tag
\* first and, for a leaf, its quantity in the last 8 bytes, whatever the nodes
\* before it are; the payload of every variant spans at most 60 bytes.
C18_NodeIs64Bytes ==
  Decoded =>
    /\ \A i \in 1..Len(slab.nodes) :
         LET at == 40 + 64 * (i - 1)
         IN  /\ TagNumber(slab.nodes[i]) = U32At(data, at)
             /\ slab.nodes[i].tag = "leafNode" =>
                  slab.nodes[i].quantity = slice(data, at + 56, at + 64)
    /\ \A tag \in DOMAIN SlabNodeVariants : SpanOf(SlabNodeVariants[tag].fields) <= 60

\* a whole leaf decoded after a free node, whose payload is 4 bytes
C18_Witness ==
  /\ Decoded
  /\ Len(slab.nodes) = 2
  /\ slab.nodes[1].tag = "freeNode"
  /\ slab.nodes[2].tag = "leafNode"
  /\ slab.nodes[2].quantity = Bytes(3, 8)

\* flag k of the account, from its bytes
FlagBit(b, k) == (b[1] \div Pow2(k)) % 2 = 1

\* C19: an Orderbook comes only from flags with initialized set and exactly
\* one of bids and asks set, and its isBids is the bids flag; any other flags
\* on an account whose layout decodes raise 'Invalid orderbook' and leave no
\* Orderbook.
C19_OrderbookFlags ==
  op.name = "decode" =>
    LET valid == FlagBit(data, 0) /\ (FlagBit(data, 5) # FlagBit(data, 6))
    IN  /\ ret.error = "none" => (valid /\ isBids = FlagBit(data, 5))
        /\ (~valid /\ SlabDecode(data, 8).error = "none") =>
             (ret.error = "Invalid orderbook" /\ NoBook)

\* an initialized account flagged both bids and asks, refused
C19_Witness ==
  /\ op.name = "decode"
  /\ FlagBit(data, 0) /\ FlagBit(data, 5) /\ FlagBit(data, 6)
  /\ ret.error = "Invalid orderbook"

----------------------------------------------------------------------------
(* The market loading claim *)

\* the account at address exists, the DEX program owns it, its data carry the
\* initialized and market flags and the address itself, and both mints it names
\* hold an account
Loadable(conn, address) ==
  /\ ~conn[address].null
  /\ conn[address].owner = DEX_PROGRAM_ID
  /\ LET bytes == conn[address].data
     IN  /\ FlagBit(bytes, 0) /\ FlagBit(bytes, 1)
         /\ slice(bytes, 8, 40) = address
         /\ ~getAccountInfo(conn, slice(bytes, 48, 80)).null
         /\ ~getAccountInfo(conn, slice(bytes, 80, 112)).null

\* C20: Market.load returns a Market only for a loadable address, and for any
\* other it raises an ordinary Error, not the TypeError of a null value taken
\* apart, and returns no Market.
C20_LoadChecks ==
  op.name = "load" =>
    /\ ret.error = "none" => Loadable(connection, op.address)
    /\ ~Loadable(connection, op.address) => ret.error \notin {"none", "TypeError"}

----------------------------------------------------------------------------
(* Pool request claim *)

\* the length of an encoded request, counted field by field
EncodedSize(r) ==
  TagSpan + 1
    + (IF r.kind = "initialize" THEN 1 + 1 + 2
       ELSE 1 + (IF r.value.kind = "swap" THEN 4 + 8 * Len(r.value.value.quantities)
                 ELSE 8))

\* two requests are the same variant with the same content
SameRequest(a, b) ==
  /\ a.kind = b.kind
  /\ IF a.kind = "initialize" THEN a.value = b.value
     ELSE /\ a.value.kind = b.value.kind
          /\ a.value.value = b.value.value

\* C21: every pool request is encoded, into exactly the bytes its fields take,
\* and decoding those bytes gives the request back
C21_RequestRoundTrip ==
  /\ op.name = "encodePoolRequest" =>
       /\ ret.error = "none"
       /\ Len(ret.value) = EncodedSize(op.poolRequest)
  /\ op.name = "decodePoolRequest" =>
       /\ ret.error = "none"
       /\ SameRequest(ret.value, op.poolRequest)

\* the same, for the requests whose encoding fits the buffer
C21_FittingRoundTrip ==
  (op.name # "none" /\ EncodedSize(op.poolRequest) > BufferSize) \/ C21_RequestRoundTrip

----------------------------------------------------------------------------
(* Division claim *)

----------------------------------------------------------------------------
(* Rounding claim *)

\* lots is an integer nearest to num/den
Nearest(lots, num, den) ==
  /\ 2 * (lots * den - num) <= den
  /\ 2 * (num - lots * den) <= den

\* lots is num/den rounded down
RoundedDown(lots, num, den) == lots * den <= num /\ num < (lots + 1) * den

PriceIsNearest ==
  op.name = "priceNumberToLots" =>
    Nearest(ret, sizeArg.num * Pow10(market.quoteDecimals) * market.baseLotSize,
            sizeArg.den * Pow10(market.baseDecimals) * market.quoteLotSize)

\* C23: priceNumberToLots gives the integer nearest to
\* p * 10^quoteDecimals * baseLotSize / (10^baseDecimals * quoteLotSize), and
\* the two size-to-lots conversions round down
C23_AsymmetricRounding ==
  /\ PriceIsNearest
  /\ op.name = "baseSizeNumberToLots" =>
       RoundedDown(ret, sizeArg.num * Pow10(market.baseDecimals),
                   sizeArg.den * market.baseLotSize)
  /\ op.name = "quoteSizeNumberToLots" =>
       RoundedDown(ret, sizeArg.num * Pow10(market.quoteDecimals),
                   sizeArg.den * market.quoteLotSize)

----------------------------------------------------------------------------
(* Open-orders claims *)

RECURSIVE SumOfSpans(_, _)
\* the spans of the fields declared before the one named
SumOfSpans(fields, property) ==
  IF Head(fields).property = property THEN 0
  ELSE Head(fields).span + SumOfSpans(Tail(fields), property)

\* the accounts of the cluster that pass the filters of the call
Passing ==
  {a \in DOMAIN connection :
     \A i \in 1..Len(op.filters) : PassesFilter(connection[a].data, op.filters[i])}

\* C24: the filters of findForMarketAndOwner sit at the sum of the spans of
\* the fields before market and before owner, and every account that passes
\* them decodes to a record with the market and the owner asked for
C24_FiltersAgreeWithDecode ==
  op.name = "findForMarketAndOwner" =>
    /\ op.filters[1].memcmp.offset = SumOfSpans(OPEN_ORDERS_LAYOUT, "market")
    /\ op.filters[2].memcmp.offset = SumOfSpans(OPEN_ORDERS_LAYOUT, "owner")
    /\ \A a \in Passing :
         LET decoded == StructDecode(OPEN_ORDERS_LAYOUT, connection[a].data, 0)
         IN  /\ decoded.error = "none"
             /\ decoded.value.market = op.marketAddress
             /\ decoded.value.owner = op.ownerAddress
    /\ ret.error = "none" =>
         \A i \in 1..Len(ret.value) :
           /\ ret.value[i].market = op.marketAddress
           /\ ret.value[i].owner = op.ownerAddress

\* two accounts passed the filters and were returned
C24_Witness ==
  /\ op.name = "findForMarketAndOwner"
  /\ Cardinality(Passing) = 2
  /\ ret.error = "none"
  /\ Len(ret.value) = 2

----------------------------------------------------------------------------
(* Order placement and cancellation claims *)

PlaceNames == {"placeOrder", "makePlaceOrderTransaction"}

\* call c is a place call that has built its transaction
HasBuilt(c) ==
  /\ op[c].name \in PlaceNames
  /\ op[c].pc \in {"send", "done"}
  /\ ret[c].error = "none"

\* the transaction of call c holds a create-account instruction
Creates(c) ==
  \E i \in 1..Len(ret[c].value.transaction) :
    ret[c].value.transaction[i].instruction = "createAccount"

\* C25: with no open-orders account found, the transaction is a create-account
\* instruction for a fresh account, then the newOrder that uses that account,
\* signed by the owner and the new account; with accounts found it is the
\* newOrder alone, on the first account returned, signed by the owner
C25_PlaceOrderShape ==
  \A c \in Callers :
    HasBuilt(c) =>
      LET found == op[c].found.value
          transaction == ret[c].value.transaction
          signers == ret[c].value.signers
      IN  IF Len(found) = 0
          THEN /\ Len(transaction) = 2
               /\ transaction[1].instruction = "createAccount"
               /\ transaction[1].newAccountPubkey \notin AccountAddresses
               /\ \A d \in Callers \ {c} :
                    HasBuilt(d) /\ Creates(d) =>
                      ret[d].value.transaction[1].newAccountPubkey
                        # transaction[1].newAccountPubkey
               /\ transaction[2].instruction = "newOrder"
               /\ transaction[2].openOrders = transaction[1].newAccountPubkey
               /\ signers = <<op[c].params.owner, transaction[1].newAccountPubkey>>
          ELSE /\ Len(transaction) = 1
               /\ transaction[1].instruction = "newOrder"
               /\ transaction[1].openOrders = found[1].address
               /\ signers = <<op[c].params.owner>>

\* a call that found no account has built its transaction and sent it, and
\* the other call has found the account it created and built on it
C25_Witness ==
  \E c, d \in Callers :
    /\ HasBuilt(c) /\ Len(op[c].found.value) = 0
    /\ HasBuilt(d) /\ Len(op[d].found.value) > 0
    /\ ret[d].value.transaction[1].openOrders = ret[c].value.transaction[1].newAccountPubkey

\* C26: of two place calls of which one began while the other was in
\* progress, at most one has built a transaction that creates an account
C26_AtMostOneCreates ==
  \A c, d \in Callers :
    (/\ c # d
     /\ HasBuilt(c) /\ HasBuilt(d)
     /\ c \in op[d].during)
      => ~(Creates(c) /\ Creates(d))

\* the accounts found by cancel call c that list its order
Listing(c) ==
  {i \in 1..Len(op[c].found.value) :
     \E slot \in 1..OrderSlots : op[c].found.value[i].orders[slot] = op[c].order.orderId}

\* C27: makeCancelOrderTransaction raises 'Order not found' and builds nothing
\* exactly when no account found for the owner lists the order id; otherwise
\* its one instruction names the first account, in the order returned, that
\* lists it
C27_CancelFindsFirst ==
  \A c \in Callers :
    (op[c].name = "makeCancelOrderTransaction" /\ op[c].found.error = "none") =>
      /\ ret[c].error = "Order not found" <=> Listing(c) = {}
      /\ Listing(c) = {} => ret[c].value = <<>>
      /\ Listing(c) # {} =>
           /\ ret[c].error = "none"
           /\ Len(ret[c].value) = 1
           /\ ret[c].value[1].instruction = "cancelOrder"
           /\ \E i \in Listing(c) :
                /\ \A j \in Listing(c) : i <= j
                /\ ret[c].value[1].openOrders = op[c].found.value[i].address

\* two accounts were found, the first without the order and the second with
\* it, and the second is the one named
C27_Witness ==
  \E c \in Callers :
    /\ op[c].name = "makeCancelOrderTransaction"
    /\ op[c].found.error = "none"
    /\ Listing(c) = {2}
    /\ ret[c].error = "none"

----------------------------------------------------------------------------
(* Mint decimals claim *)

\* the mint account at the address the market account holds at offset, as
\* getMintDecimals can or cannot read it: the decimals are byte 36 of its data
MintOf(offset) == getAccountInfo(connection, slice(connection[op.address].data, offset, offset + 32))

MintFails(offset) == MintOf(offset).null \/ Len(MintOf(offset).data) <= 36

\* C28: the Market that market.ts loads has the decimals of its base mint
\* account as base decimals and those of its quote mint account as quote
\* decimals, and no Market is returned when a mint cannot be read
C28_DecimalsByMint ==
  (op.name = "load" /\ op.file = "market.ts") =>
    /\ ret.error = "none" =>
         /\ ret.value.baseDecimals = MintOf(48).data[37]
         /\ ret.value.quoteDecimals = MintOf(80).data[37]
    /\ (/\ ~connection[op.address].null
        /\ Len(connection[op.address].data) >= 112
        /\ MintFails(48) \/ MintFails(80)) => ret.error # "none"

\* a Market loaded from mints of different decimals
C28_Witness ==
  /\ op.name = "load" /\ op.file = "market.ts"
  /\ ret.error = "none"
  /\ ret.value.baseDecimals # ret.value.quoteDecimals

----------------------------------------------------------------------------
(* Layout agreement claim *)

\* the two decodes of an account both fail or both give a record
BothOrNeither == (ret.ts.error = "none") <=> (ret.js.error = "none")

\* C29: the layouts of market-state.js span as many bytes as those of
\* market.ts and read every field at the same place with the same meaning: an
\* account decodes under both or under neither, the fields of one name are
\* equal, and the free and total balances of the open-orders record are the
\* same numbers under both
C29_LayoutsAgree ==
  /\ op.name = "MARKET_STATE_LAYOUT.decode" =>
       SpanOf(STATE_JS_MARKET_STATE_LAYOUT) = SpanOf(MARKET_STATE_LAYOUT)
  /\ op.name = "OPEN_ORDERS_LAYOUT.decode" =>
       SpanOf(STATE_JS_OPEN_ORDERS_LAYOUT) = SpanOf(OPEN_ORDERS_LAYOUT)
  /\ op.name # "none" =>
       /\ BothOrNeither
       /\ ret.ts.error = "none" =>
            \A p \in DOMAIN ret.ts.value \cap DOMAIN ret.js.value :
              ret.ts.value[p] = ret.js.value[p]
  /\ (op.name = "MARKET_STATE_LAYOUT.decode" /\ ret.ts.error = "none") =>
       DOMAIN ret.ts.value = DOMAIN ret.js.value
  /\ (op.name = "OPEN_ORDERS_LAYOUT.decode" /\ ret.ts.error = "none") =>
       /\ ret.js.value.baseFree = ret.ts.value.baseTokenFree
       /\ ret.js.value.baseTotal = ret.ts.value.baseTokenTotal
       /\ ret.js.value.quoteFree = ret.ts.value.quoteTokenFree
       /\ ret.js.value.quoteTotal = ret.ts.value.quoteTokenTotal

\* the part that holds: the open-orders layouts have one span, and the fields
\* the two files name alike are read alike
C29_SharedFieldsAgree ==
  /\ SpanOf(STATE_JS_OPEN_ORDERS_LAYOUT) = SpanOf(OPEN_ORDERS_LAYOUT)
  /\ (op.name # "none" /\ ret.ts.error = "none" /\ ret.js.error = "none") =>
       \A p \in DOMAIN ret.ts.value \cap DOMAIN ret.js.value :
         ret.ts.value[p] = ret.js.value[p]

----------------------------------------------------------------------------
(* The claim on the two getL2 *)

\* C30: getL2 of market.js completes on every book and depth and returns the
\* levels getL2 of market.ts returns for the same book, the size of each level
\* being sizeLots * baseLotSize / 10^baseDecimals
C30_SameLevels ==
  (op.name = "getL2" /\ "file" \in DOMAIN op) =>
    /\ ret.error = "none"
    /\ ret.value = getL2(market, isBids, op.pre, op.depth).levels
    /\ \A i \in 1..Len(ret.value) :
         LET size == ret.value[i].size
         IN  (size.whole * size.den + size.num) * Pow10(market.baseDecimals)
               = ret.value[i].sizeLots * market.baseLotSize * size.den

\* the same, for the calls that yield no level
C30_SameWhenEmpty ==
  (/\ op.name = "getL2" /\ "file" \in DOMAIN op
   /\ getL2(market, isBids, op.pre, op.depth).levels = <<>>) =>
    ret = Ok(<<>>)

====
